---- MODULE Spec2Model ----
(***************************************************************************)
(* A model of the go-tcap codec: the BER length codec (asn1length.go), the *)
(* generic IE (ie.go), the Transaction Portion (transaction.go), the       *)
(* Dialogue Portion and Dialogue PDU (dialogue-pdu.go), the Component      *)
(* Portion (unnamed/part_001) and the TCAP aggregate (tcap.go, the first   *)
(* of the two snapshots in that file).                                     *)
(*                                                                         *)
(* Bytes are the naturals 0..255, byte slices are sequences, a Go slice    *)
(* whose capacity matters is a pair (bytes, spare): the bytes within len   *)
(* and the bytes of the backing array between len and cap.  A nil pointer  *)
(* is a record whose field nil is TRUE.  A run-time panic (index or slice  *)
(* out of range, nil dereference) is the outcome "panic".                  *)
(***************************************************************************)
EXTENDS Integers, Sequences, FiniteSets, TLC

VARIABLES op, tree, buf, ret, src, wire, trips, race

vars == <<op, tree, buf, ret, src, wire, trips, race>>

(***************************************************************************)
(* Bounds of the model.                                                    *)
(***************************************************************************)
\* longest value handed to NewIE
MaxValueLen == 255
\* longest raw buffer fed to the IE parsers
MaxFeedLen == 4
\* longest spare capacity behind a buffer fed to ParseTransaction
MaxSpare == 6
\* most MarshalBinary calls in one run
MaxTrips == 1
\* longest buffer handed to the recursive IE parsers
MaxNestedLen == 8
\* the longest message handed to ParseBER: the Continue of codec_test.go
MaxBERLen == 49

(***************************************************************************)
(* uint8 arithmetic and bit operations.                                    *)
(***************************************************************************)
U8(n) == n % 256

\* bit k of the non-negative integer a
Bit(a, k) == (a \div 2^k) % 2

\* a & b of two octets
AndOctet(a, b) ==
    ((Bit(a, 0) * Bit(b, 0) + 2 * (Bit(a, 1) * Bit(b, 1)))
       + (4 * (Bit(a, 2) * Bit(b, 2)) + 8 * (Bit(a, 3) * Bit(b, 3))))
    + ((16 * (Bit(a, 4) * Bit(b, 4)) + 32 * (Bit(a, 5) * Bit(b, 5)))
       + (64 * (Bit(a, 6) * Bit(b, 6)) + 128 * (Bit(a, 7) * Bit(b, 7))))

\* a & b of two non-negative integers, octet by octet
RECURSIVE BitAnd(_, _)
BitAnd(a, b) ==
    IF a = 0 \/ b = 0 THEN 0
    ELSE AndOctet(a % 256, b % 256) + 256 * BitAnd(a \div 256, b \div 256)

\* a | b
BitOr(a, b) == (a + b) - BitAnd(a, b)

\* make([]byte, n)
Zeros(n) == SubSeq([k \in 1..n |-> 0], 1, n)

\* b[lo:] of a sequence, lo counted from 0 as in Go (lo <= Len(b))
From(b, lo) == SubSeq(b, lo + 1, Len(b))

\* b[lo:hi]
Slice(b, lo, hi) == SubSeq(b, lo + 1, hi)

\* dst after copy(dst[lo:hi], from), which copies min(hi - lo, len(from)) bytes
Copy(dst, lo, hi, from) ==
    SubSeq([k \in 1..Len(dst) |->
               IF k > lo /\ k <= hi /\ k - lo <= Len(from) THEN from[k - lo] ELSE dst[k]],
           1, Len(dst))

\* binary.BigEndian.PutUint32
PutUint32(v) ==
    << (v \div 16777216) % 256, (v \div 65536) % 256, (v \div 256) % 256, v % 256 >>

\* F(e), with e evaluated once and bound to F's parameter: a local variable
\* of the code (v := e; ...)
Let(e, F(_)) == CHOOSE r \in { F(v) : v \in {e} } : TRUE

(***************************************************************************)
(* asn1length.go                                                           *)
(***************************************************************************)
handleMarshalLen(elementLength, len) ==
    IF elementLength > 127 THEN len + 3 ELSE len + 2

\* r.ReadByte() on bytes.NewReader(b[1:]): the k-th read returns b[1+k], or
\* 0 (with an error the code drops) once the reader is exhausted
ReadByte(b, k) == IF k + 1 <= Len(b) THEN b[k + 1] ELSE 0

\* the loop of readLength over the iterations lo <= i < hi, length being the
\* accumulator on entry: an int of which only the low byte is shifted.  The
\* iterations run in order; the range is halved to keep the evaluation shallow.
RECURSIVE readLengthFold(_, _, _, _)
readLengthFold(b, lo, hi, length) ==
    IF hi <= lo THEN length
    ELSE IF hi = lo + 1
    THEN BitOr(U8(U8(length) * 256), BitAnd(255, ReadByte(b, lo + 2)))
    ELSE Let(readLengthFold(b, lo, (lo + hi) \div 2, length),
             LAMBDA left : readLengthFold(b, (lo + hi) \div 2, hi, left))

\* a faulty variant of readLength: the header size of the long form counts
\* the length octets, 2 + count
readLength_CountedHeader(b) ==
    Let(ReadByte(b, 1), LAMBDA lengthByte :
        IF BitAnd(lengthByte, 128) = 0
        THEN [length |-> U8(lengthByte), offset |-> 2]
        ELSE IF BitAnd(lengthByte, 127) = 0
        THEN [length |-> 0, offset |-> 2]
        ELSE [length |-> U8(readLengthFold(b, 0, BitAnd(lengthByte, 127), 0)),
              offset |-> 2 + BitAnd(lengthByte, 127)])

\* readLength(b), for len(b) >= 1 (b[1:] panics on an empty b)
readLength(b) ==
    Let(ReadByte(b, 1), LAMBDA lengthByte :
        IF BitAnd(lengthByte, 128) = 0
        THEN [length |-> U8(lengthByte), offset |-> 2]
        ELSE IF BitAnd(lengthByte, 127) = 0
        THEN [length |-> 0, offset |-> 2]
        ELSE [length |-> U8(readLengthFold(b, 0, BitAnd(lengthByte, 127), 0)),
              offset |-> 3])

\* the octets writeLength puts after b[offset-1] for a long-form length:
\* the minimal big-endian encoding of l.  The first mask, int64(-16777216),
\* selects every bit from bit 24 up, which for a non-negative l is
\* l \div 2^24 > 0.
writeLengthBuf(l) ==
    IF l \div 16777216 > 0
    THEN << (l \div 16777216) % 256, (l \div 65536) % 256, (l \div 256) % 256, l % 256 >>
    ELSE IF BitAnd(l, 16711680) > 0
    THEN << (l \div 65536) % 256, (l \div 256) % 256, l % 256 >>
    ELSE IF BitAnd(l, 65280) > 0
    THEN << (l \div 256) % 256, l % 256 >>
    ELSE << l % 256 >>

\* a faulty variant of writeLength: the length is written as it is, without
\* length = length - 1
writeLength_NoDecrement(b, length) ==
    IF length <= 127
    THEN IF Len(b) < 2
         THEN [panic |-> TRUE, b |-> b, offset |-> 2]
         ELSE [panic |-> FALSE, b |-> [b EXCEPT ![2] = length], offset |-> 2]
    ELSE Let(writeLengthBuf(U8(length)), LAMBDA octets :
             IF Len(b) < 2 + Len(octets)
             THEN [panic |-> TRUE, b |-> b, offset |-> 2 + Len(octets)]
             ELSE [panic |-> FALSE,
                   b |-> Copy([b EXCEPT ![2] = BitOr(128, Len(octets))],
                              2, 2 + Len(octets), octets),
                   offset |-> 2 + Len(octets)])

\* writeLength(b, length): the buffer after the call and the offset returned;
\* an index beyond len(b) panics
writeLength(b, length) ==
    IF length <= 127
    THEN IF Len(b) < 2
         THEN [panic |-> TRUE, b |-> b, offset |-> 2]
         ELSE [panic |-> FALSE, b |-> [b EXCEPT ![2] = length], offset |-> 2]
    ELSE Let(writeLengthBuf(U8(length - 1)), LAMBDA octets :
             IF Len(b) < 2 + Len(octets)
             THEN [panic |-> TRUE, b |-> b, offset |-> 2 + Len(octets)]
             ELSE [panic |-> FALSE,
                   b |-> Copy([b EXCEPT ![2] = BitOr(128, Len(octets))],
                              2, 2 + Len(octets), octets),
                   offset |-> 2 + Len(octets)])


(***************************************************************************)
(* ie.go: Tag                                                              *)
(***************************************************************************)
Universal == 0
ApplicationWide == 1
ContextSpecific == 2
Private == 3
Primitive == 0
Constructor == 1

\* a faulty variant of NewTag: the form is shifted by four bits, not five
NewTag_FormShift4(cls, form, code) == U8(BitOr(BitOr(cls * 64, form * 16), code))

NewTag(cls, form, code) == U8(BitOr(BitOr(cls * 64, form * 32), code))
NewUniversalPrimitiveTag(code) == NewTag(Universal, Primitive, code)
NewUniversalConstructorTag(code) == NewTag(Universal, Constructor, code)
NewApplicationWidePrimitiveTag(code) == NewTag(ApplicationWide, Primitive, code)
NewApplicationWideConstructorTag(code) == NewTag(ApplicationWide, Constructor, code)
NewContextSpecificPrimitiveTag(code) == NewTag(ContextSpecific, Primitive, code)
NewContextSpecificConstructorTag(code) == NewTag(ContextSpecific, Constructor, code)

TagClass(t) == BitAnd(t \div 64, 3)
TagForm(t) == BitAnd(t \div 32, 1)
TagCode(t) == BitAnd(t, 31)

(***************************************************************************)
(* ie.go: IE                                                               *)
(***************************************************************************)
\* a nil *IE
NilIE == [nil |-> TRUE, Tag |-> 0, Length |-> 0, Value |-> <<>>, IE |-> <<>>]

\* &IE{Tag: tag, Length: length, Value: value}
MkIE(tag, length, value) ==
    [nil |-> FALSE, Tag |-> tag, Length |-> length, Value |-> value, IE |-> <<>>]

IE_SetLength(i) == [i EXCEPT !.Length = U8(Len(i.Value))]

NewIE(tag, value) == IE_SetLength(MkIE(tag, 0, value))

IE_MarshalLen(i) ==
    IF Len(i.Value) > 0
    THEN handleMarshalLen(U8(Len(i.Value)), Len(i.Value))
    ELSE handleMarshalLen(i.Length, Len(i.Value))

\* i.MarshalTo(b) on a buffer b whose capacity is its length
IE_MarshalTo(i, b) ==
    IF Len(b) < 2 THEN [err |-> "ErrUnexpectedEOF", b |-> b]
    ELSE Let(writeLength([b EXCEPT ![1] = i.Tag], i.Length), LAMBDA w :
             IF w.panic THEN [err |-> "panic", b |-> b]
             ELSE IF IE_MarshalLen(i) > Len(b) \/ w.offset > IE_MarshalLen(i)
             THEN [err |-> "panic", b |-> b]
             ELSE [err |-> "nil", b |-> Copy(w.b, w.offset, IE_MarshalLen(i), i.Value)])

IE_MarshalBinary(i) ==
    Let(IE_MarshalTo(i, Zeros(IE_MarshalLen(i))), LAMBDA r :
        IF r.err = "nil" THEN r ELSE [err |-> r.err, b |-> <<>>])

\* (i *IE).UnmarshalBinary(b) on a fresh IE, as ParseIE calls it
ParseIE(b) ==
    IF Len(b) < 3 THEN [err |-> "ErrUnexpectedEOF", ie |-> NilIE]
    ELSE Let(readLength(b), LAMBDA rl :
             IF Len(b) < rl.offset + rl.length
             THEN [err |-> "ErrUnexpectedEOF", ie |-> NilIE]
             ELSE [err |-> "nil",
                   ie |-> MkIE(b[1], rl.length,
                               Slice(b, rl.offset, rl.offset + rl.length))])

RECURSIVE ParseMultiIEsLoop(_, _)
ParseMultiIEsLoop(b, ies) ==
    IF Len(b) = 0 THEN [err |-> "nil", ies |-> ies]
    ELSE Let(ParseIE(b), LAMBDA r :
             IF r.err # "nil" THEN [err |-> r.err, ies |-> <<>>]
             ELSE IF IE_MarshalLen(r.ie) > Len(b) THEN [err |-> "panic", ies |-> <<>>]
             ELSE ParseMultiIEsLoop(From(b, IE_MarshalLen(r.ie)), Append(ies, r.ie)))

ParseMultiIEs(b) == ParseMultiIEsLoop(b, <<>>)

RECURSIVE SumMarshalLen(_)
SumMarshalLen(ies) ==
    IF Len(ies) = 0 THEN 0 ELSE IE_MarshalLen(Head(ies)) + SumMarshalLen(Tail(ies))

\* what ParseAsBER's loop skips after parsing i: the children's lengths when
\* the first child is shorter than i's value, i's own length otherwise
BERAdvance(i) ==
    IF Len(i.IE) = 0 THEN IE_MarshalLen(i)
    ELSE IF IE_MarshalLen(i.IE[1]) < IE_MarshalLen(i) - 2
    THEN 2 + SumMarshalLen(i.IE)
    ELSE IE_MarshalLen(i)

RECURSIVE ParseAsBERLoop(_, _)
RECURSIVE ParseIERecursive(_)

\* ParseAsBER's loop: b is what remains, ies what has been collected
ParseAsBERLoop(b, ies) ==
    IF Len(b) = 0 THEN [err |-> "nil", ies |-> ies]
    ELSE Let(ParseIERecursive(b), LAMBDA r :
             CASE r.err # "nil" -> [err |-> r.err, ies |-> <<>>]
               [] r.err = "nil" /\ BERAdvance(r.ie) > Len(b) ->
                      [err |-> "panic", ies |-> <<>>]
               [] OTHER -> ParseAsBERLoop(From(b, BERAdvance(r.ie)), Append(ies, r.ie)))

\* the children of a constructed IE: ParseRecursive drops ParseAsBER's error
\* and keeps the children it returned, none on an error
ParseChildren(tag, value) ==
    IF TagForm(tag) = 1 THEN ParseAsBERLoop(value, <<>>)
    ELSE [err |-> "nil", ies |-> <<>>]

\* ParseRecursive after i.Length, offset = readLength(b), rl being that pair
ParseRecursiveFrom(b, rl) ==
    IF rl.length + rl.offset > Len(b)
    THEN [err |-> "nil", ie |-> MkIE(b[1], rl.length, <<>>)]
    ELSE Let(ParseChildren(b[1], Slice(b, rl.offset, rl.offset + rl.length)),
             LAMBDA x :
             IF x.err = "panic" THEN [err |-> "panic", ie |-> NilIE]
             ELSE [err |-> "nil",
                   ie |-> [MkIE(b[1], rl.length,
                                Slice(b, rl.offset, rl.offset + rl.length))
                              EXCEPT !.IE = IF x.err = "nil" THEN x.ies ELSE <<>>]])

\* (i *IE).ParseRecursive(b) on a fresh IE, as ParseIERecursive calls it
ParseIERecursive(b) ==
    IF Len(b) < 2 THEN [err |-> "ErrUnexpectedEOF", ie |-> NilIE]
    ELSE ParseRecursiveFrom(b, readLength(b))

ParseAsBER(b) == ParseAsBERLoop(b, <<>>)

(***************************************************************************)
(* Marshalling a sequence of optional fields, as every MarshalTo does:     *)
(*   if field != nil { field.MarshalTo(b[offset:offset+field.MarshalLen()]) *)
(*                     offset += field.MarshalLen() }                      *)
(* acc is [err, b, offset]; b's capacity is its length.                    *)
(***************************************************************************)
\* acc after x.MarshalTo(b[offset : offset+ml]) has returned r = [err, b], b
\* being that slice as the call left it
Marshalled(acc, ml, r) ==
    IF r.err # "nil" THEN [acc EXCEPT !.err = r.err]
    ELSE [err |-> "nil",
          b |-> Copy(acc.b, acc.offset, acc.offset + ml, r.b),
          offset |-> acc.offset + ml]

\* a field that is not nil, ml being field.MarshalLen()
MarshalFieldAt(acc, field, ml) ==
    IF acc.offset + ml > Len(acc.b)
    THEN [acc EXCEPT !.err = "panic"]
    ELSE Marshalled(acc, ml,
                    IE_MarshalTo(field, Slice(acc.b, acc.offset, acc.offset + ml)))

MarshalField(acc, field) ==
    IF acc.err # "nil" \/ field.nil THEN acc
    ELSE MarshalFieldAt(acc, field, IE_MarshalLen(field))

RECURSIVE MarshalFields(_, _)
MarshalFields(acc, fields) ==
    IF Len(fields) = 0 THEN acc
    ELSE MarshalFields(MarshalField(acc, Head(fields)), Tail(fields))

\* the non-nil fields among fields, in order
RECURSIVE Present(_)
Present(fields) ==
    IF Len(fields) = 0 THEN <<>>
    ELSE IF Head(fields).nil THEN Present(Tail(fields))
    ELSE <<Head(fields)>> \o Present(Tail(fields))

(***************************************************************************)
(* transaction.go                                                          *)
(***************************************************************************)
Unidirectional == 1
Begin == 2
End == 4
Continue == 5
Abort == 7

NilTransaction ==
    [nil |-> TRUE, Type |-> 0, Length |-> 0, OrigTransactionID |-> NilIE,
     DestTransactionID |-> NilIE, PAbortCause |-> NilIE, Payload |-> <<>>]

\* the fields MarshalTo, MarshalLen write or count for the type, in order
TransactionFields(t) ==
    Let(TagCode(t.Type), LAMBDA code :
        IF code = Begin THEN <<t.OrigTransactionID>>
        ELSE IF code = End THEN <<t.DestTransactionID>>
        ELSE IF code = Continue THEN <<t.OrigTransactionID, t.DestTransactionID>>
        ELSE IF code = Abort THEN <<t.DestTransactionID, t.PAbortCause>>
        ELSE <<>>)

Transaction_MarshalLen(t) ==
    2 + SumMarshalLen(Present(TransactionFields(t))) + Len(t.Payload)

SetLengthIfPresent(field) == IF field.nil THEN field ELSE IE_SetLength(field)

Transaction_SetLength(t) ==
    Let([t EXCEPT !.OrigTransactionID = SetLengthIfPresent(@),
                  !.DestTransactionID = SetLengthIfPresent(@),
                  !.PAbortCause = SetLengthIfPresent(@)],
        LAMBDA t1 : [t1 EXCEPT !.Length = U8(Transaction_MarshalLen(t1) - 2)])

NewTransaction(mtype, otid, dtid, cause, payload) ==
    Transaction_SetLength(
        [nil |-> FALSE,
         Type |-> NewApplicationWideConstructorTag(mtype),
         Length |-> 0,
         OrigTransactionID |-> MkIE(NewApplicationWidePrimitiveTag(8), 0, PutUint32(otid)),
         DestTransactionID |-> MkIE(NewApplicationWidePrimitiveTag(9), 0, PutUint32(dtid)),
         PAbortCause |-> MkIE(NewApplicationWidePrimitiveTag(10), 0, <<cause>>),
         Payload |-> payload])

NewUnidirectional(payload) ==
    [NewTransaction(Unidirectional, 0, 0, 0, payload) EXCEPT
        !.OrigTransactionID = NilIE, !.DestTransactionID = NilIE, !.PAbortCause = NilIE]

NewBegin(otid, payload) ==
    Transaction_SetLength(
        [NilTransaction EXCEPT
            !.nil = FALSE,
            !.Type = NewApplicationWideConstructorTag(Begin),
            !.OrigTransactionID = MkIE(NewApplicationWidePrimitiveTag(8), 0, PutUint32(otid)),
            !.Payload = payload])

NewEnd(otid, payload) ==
    Transaction_SetLength(
        [NilTransaction EXCEPT
            !.nil = FALSE,
            !.Type = NewApplicationWideConstructorTag(End),
            !.DestTransactionID = MkIE(NewApplicationWidePrimitiveTag(9), 0, PutUint32(otid)),
            !.Payload = payload])

NewContinue(otid, dtid, payload) ==
    [NewTransaction(Continue, otid, dtid, 0, payload) EXCEPT !.PAbortCause = NilIE]

\* a faulty variant of NewAbort: OrigTransactionID is left set
NewAbort_KeepsOrig(dtid, cause, payload) ==
    NewTransaction(Abort, 0, dtid, cause, payload)

NewAbort(dtid, cause, payload) ==
    [NewTransaction(Abort, 0, dtid, cause, payload) EXCEPT !.OrigTransactionID = NilIE]

\* t.MarshalTo(b), b's capacity being its length
Transaction_MarshalTo(t, b) ==
    IF Len(b) < 2 THEN [err |-> "panic", b |-> b]
    ELSE Let(MarshalFields([err |-> "nil",
                            b |-> [b EXCEPT ![1] = t.Type, ![2] = t.Length],
                            offset |-> 2],
                           TransactionFields(t)),
             LAMBDA acc :
             IF acc.err # "nil" THEN [err |-> acc.err, b |-> b]
             ELSE IF Transaction_MarshalLen(t) > Len(b)
             THEN [err |-> "panic", b |-> b]
             ELSE [err |-> "nil",
                   b |-> Copy(acc.b, acc.offset, Transaction_MarshalLen(t), t.Payload)])

Transaction_MarshalBinary(t) ==
    Let(Transaction_MarshalTo(t, Zeros(Transaction_MarshalLen(t))), LAMBDA r :
        IF r.err = "nil" THEN r ELSE [err |-> r.err, b |-> <<>>])

\* one step of Transaction.UnmarshalBinary:
\*   field, err = ParseIE(b[offset : offset+width]); offset += field.MarshalLen()
\* st is [err, offset, ie]; all is the backing array (len and spare capacity)
ParseFixed(st, all, width) ==
    IF st.err # "nil" THEN st
    ELSE IF st.offset + width > Len(all) THEN [st EXCEPT !.err = "panic"]
    ELSE Let(ParseIE(Slice(all, st.offset, st.offset + width)), LAMBDA r :
             IF r.err # "nil" THEN [st EXCEPT !.err = r.err]
             ELSE [err |-> "nil", offset |-> st.offset + IE_MarshalLen(r.ie),
                   ie |-> r.ie])

\* the second fixed-width field of the type, after the first was parsed
ParseSecond(code, first, all) ==
    IF code = Continue THEN ParseFixed(first, all, 6)
    ELSE IF code = Abort THEN ParseFixed(first, all, 3)
    ELSE first

\* the Transaction whose type code is code and whose fields were parsed as
\* first and second
ParsedTransaction(code, t0, first, second) ==
    IF code = Begin THEN [t0 EXCEPT !.OrigTransactionID = first]
    ELSE IF code = End THEN [t0 EXCEPT !.DestTransactionID = first]
    ELSE IF code = Continue
    THEN [t0 EXCEPT !.OrigTransactionID = first, !.DestTransactionID = second]
    ELSE IF code = Abort
    THEN [t0 EXCEPT !.DestTransactionID = first, !.PAbortCause = second]
    ELSE t0

\* ParseTransaction(b) for a slice b of the given bytes (len) whose backing
\* array continues with spare (cap = len + Len(spare))
ParseTransaction(bytes, spare) ==
    IF Len(bytes) < 2 THEN [err |-> "panic", t |-> NilTransaction]
    ELSE Let(TagCode(bytes[1]), LAMBDA code :
         Let(IF code \in {Begin, End, Continue, Abort}
             THEN ParseFixed([err |-> "nil", offset |-> 2, ie |-> NilIE],
                             bytes \o spare, 6)
             ELSE [err |-> "nil", offset |-> 2, ie |-> NilIE],
             LAMBDA first :
         Let(ParseSecond(code, first, bytes \o spare), LAMBDA second :
             IF second.err # "nil" THEN [err |-> second.err, t |-> NilTransaction]
             ELSE IF second.offset > Len(bytes)
             THEN [err |-> "panic", t |-> NilTransaction]
             ELSE [err |-> "nil",
                   t |-> ParsedTransaction(
                             code,
                             [NilTransaction EXCEPT !.nil = FALSE, !.Type = bytes[1],
                                                    !.Length = bytes[2],
                                                    !.Payload = From(bytes, second.offset)],
                             first.ie, second.ie)])))

\* the loop of Transaction.SetValsFrom over the children of the parsed IE
RECURSIVE TransactionValsLoop(_, _)
TransactionValsLoop(t, ies) ==
    IF Len(ies) = 0 THEN t
    ELSE TransactionValsLoop(
             IF Head(ies).Tag = 72 THEN [t EXCEPT !.OrigTransactionID = Head(ies)]
             ELSE IF Head(ies).Tag = 73 THEN [t EXCEPT !.DestTransactionID = Head(ies)]
             ELSE IF Head(ies).Tag = 74 THEN [t EXCEPT !.PAbortCause = Head(ies)]
             ELSE t,
             Tail(ies))

\* (t *Transaction).SetValsFrom(berParsed) on a fresh Transaction
Transaction_SetValsFrom(berParsed) ==
    TransactionValsLoop(
        [NilTransaction EXCEPT !.nil = FALSE, !.Type = berParsed.Tag,
                               !.Length = berParsed.Length],
        berParsed.IE)

(***************************************************************************)
(* Parsing a run of IEs, as every UnmarshalBinary does:                    *)
(*   field, err = ParseIE(b[offset:]); offset += field.MarshalLen()        *)
(* st is [err, offset, ie].                                                *)
(***************************************************************************)
ParseNext(st, b) ==
    IF st.err # "nil" THEN st
    ELSE IF st.offset > Len(b) THEN [st EXCEPT !.err = "panic"]
    ELSE Let(ParseIE(From(b, st.offset)), LAMBDA r :
             IF r.err # "nil" THEN [st EXCEPT !.err = r.err]
             ELSE [err |-> "nil", offset |-> st.offset + IE_MarshalLen(r.ie),
                   ie |-> r.ie])

(***************************************************************************)
(* unnamed/part_001: the Component Portion                                 *)
(***************************************************************************)
Invoke == 1
ReturnResultLast == 2
ReturnError == 3
Reject == 4
ReturnResultNotLast == 7

NilComponent ==
    [nil |-> TRUE, Type |-> 0, Length |-> 0, InvokeID |-> NilIE, LinkedID |-> NilIE,
     ResultRetres |-> NilIE, SequenceTag |-> NilIE, OperationCode |-> NilIE,
     ErrorCode |-> NilIE, ProblemCode |-> NilIE, Parameter |-> NilIE]

NilComponents == [nil |-> TRUE, Tag |-> 0, Length |-> 0, Component |-> <<>>]

\* the fields MarshalTo, MarshalLen write or count after InvokeID, in order
ComponentFields(c) ==
    Let(TagCode(c.Type), LAMBDA code :
        IF code = Invoke THEN <<c.LinkedID, c.OperationCode, c.Parameter>>
        ELSE IF code \in {ReturnResultLast, ReturnResultNotLast}
        THEN <<c.ResultRetres, c.OperationCode, c.Parameter>>
        ELSE IF code = ReturnError THEN <<c.ErrorCode, c.Parameter>>
        ELSE IF code = Reject THEN <<c.ProblemCode>>
        ELSE <<>>)

\* c.MarshalLen(), for a Component whose InvokeID is set
Component_MarshalLen(c) ==
    2 + IE_MarshalLen(c.InvokeID) + SumMarshalLen(Present(ComponentFields(c)))

\* the end of Component.SetLength, l being the sum it has accumulated
SetResultRetresLength(c, l) ==
    IF c.ResultRetres.nil THEN c ELSE [c EXCEPT !.ResultRetres.Length = U8(l)]

SetComponentLength(c) == [c EXCEPT !.Length = U8(Component_MarshalLen(c) - 2)]

Component_SetLength(c) ==
    Let([c EXCEPT !.InvokeID = SetLengthIfPresent(@),
                  !.LinkedID = SetLengthIfPresent(@),
                  !.OperationCode = SetLengthIfPresent(@),
                  !.ErrorCode = SetLengthIfPresent(@),
                  !.Parameter = SetLengthIfPresent(@),
                  !.ProblemCode = SetLengthIfPresent(@),
                  !.SequenceTag = SetLengthIfPresent(@)],
        LAMBDA c1 :
        SetComponentLength(
            SetResultRetresLength(
                c1,
                SumMarshalLen(Present(<<c1.OperationCode, c1.ErrorCode, c1.Parameter,
                                        c1.ProblemCode, c1.SequenceTag>>)))))

NewOperationCode(code, isLocal) ==
    MkIE(NewUniversalPrimitiveTag(IF isLocal THEN 2 ELSE 4), 1, <<U8(code)>>)

NewErrorCode(code, isLocal) == NewOperationCode(code, isLocal)

NewInvoke(invID, lkID, opCode, isLocal, param) ==
    Component_SetLength(
        [NilComponent EXCEPT
            !.nil = FALSE,
            !.Type = NewContextSpecificConstructorTag(Invoke),
            !.InvokeID = MkIE(NewUniversalPrimitiveTag(2), 1, <<U8(invID)>>),
            !.OperationCode = NewOperationCode(opCode, isLocal),
            !.Parameter = MkIE(NewUniversalConstructorTag(16), 0, param),
            !.LinkedID = IF lkID > 0
                         THEN MkIE(NewContextSpecificPrimitiveTag(0), 1, <<U8(lkID)>>)
                         ELSE NilIE])

NewReturnResult(invID, opCode, isLocal, isLast, param) ==
    Component_SetLength(
        [NilComponent EXCEPT
            !.nil = FALSE,
            !.Type = NewContextSpecificConstructorTag(
                        IF isLast THEN ReturnResultLast ELSE ReturnResultNotLast),
            !.ResultRetres = MkIE(NewUniversalConstructorTag(16), 0, <<>>),
            !.InvokeID = MkIE(NewUniversalPrimitiveTag(2), 1, <<U8(invID)>>),
            !.OperationCode = NewOperationCode(opCode, isLocal),
            !.Parameter = MkIE(NewUniversalConstructorTag(16), 0, param)])

NewReturnError(invID, errCode, isLocal, param) ==
    Component_SetLength(
        [NilComponent EXCEPT
            !.nil = FALSE,
            !.Type = NewContextSpecificConstructorTag(ReturnError),
            !.InvokeID = MkIE(NewUniversalPrimitiveTag(2), 1, <<U8(invID)>>),
            !.ErrorCode = NewErrorCode(errCode, isLocal),
            !.Parameter = MkIE(NewUniversalConstructorTag(16), 0, param)])

NewReject(invID, problemType, problemCode, param) ==
    Component_SetLength(
        [NilComponent EXCEPT
            !.nil = FALSE,
            !.Type = NewContextSpecificConstructorTag(Invoke),
            !.InvokeID = MkIE(NewUniversalPrimitiveTag(2), 1, <<U8(invID)>>),
            !.ProblemCode = MkIE(NewContextSpecificPrimitiveTag(problemType), 1,
                                 <<problemCode>>)])

\* the loop of Components.MarshalLen
RECURSIVE SumComponentLen(_)
SumComponentLen(comps) ==
    IF Len(comps) = 0 THEN 0
    ELSE Component_MarshalLen(Head(comps)) + SumComponentLen(Tail(comps))

Components_MarshalLen(c) == 2 + SumComponentLen(c.Component)

\* the loop of Components.SetLength: comp.SetLength() on every component
RECURSIVE SetLengthEach(_)
SetLengthEach(comps) ==
    IF Len(comps) = 0 THEN <<>>
    ELSE <<Component_SetLength(Head(comps))>> \o SetLengthEach(Tail(comps))

\* the loop of Components.SetLength: c.Length += uint8(comp.MarshalLen())
RECURSIVE AddComponentLen(_, _)
AddComponentLen(length, comps) ==
    IF Len(comps) = 0 THEN length
    ELSE AddComponentLen(U8(length + U8(Component_MarshalLen(Head(comps)))), Tail(comps))

\* a faulty variant of Components.SetLength: without c.Length = 0, the sum
\* starts from the length held
Components_SetLength_NoReset(c) ==
    [c EXCEPT !.Component = SetLengthEach(c.Component),
              !.Length = AddComponentLen(c.Length, SetLengthEach(c.Component))]

Components_SetLength(c) ==
    [c EXCEPT !.Component = SetLengthEach(c.Component),
              !.Length = AddComponentLen(0, SetLengthEach(c.Component))]

NewComponents(comps) ==
    Components_SetLength(
        [nil |-> FALSE, Tag |-> NewApplicationWideConstructorTag(12), Length |-> 0,
         Component |-> comps])

\* c.MarshalTo(b), b's capacity being its length
Component_MarshalTo(c, b) ==
    IF Len(b) < 2 THEN [err |-> "panic", b |-> b]
    ELSE Let(MarshalFields([err |-> "nil",
                            b |-> [b EXCEPT ![1] = c.Type, ![2] = c.Length],
                            offset |-> 2],
                           <<c.InvokeID>> \o ComponentFields(c)),
             LAMBDA acc : [err |-> acc.err, b |-> IF acc.err = "nil" THEN acc.b ELSE b])

Component_MarshalBinary(c) ==
    Let(Component_MarshalTo(c, Zeros(Component_MarshalLen(c))), LAMBDA r :
        IF r.err = "nil" THEN r ELSE [err |-> r.err, b |-> <<>>])

\* one iteration of the loop of Components.MarshalTo, ml being comp.MarshalLen()
ComponentsMarshalStep(acc, comp, ml) ==
    IF acc.offset + ml > Len(acc.b) THEN [acc EXCEPT !.err = "panic"]
    ELSE Marshalled(acc, ml,
                    Component_MarshalTo(comp, Slice(acc.b, acc.offset, acc.offset + ml)))

RECURSIVE ComponentsMarshalLoop(_, _)
ComponentsMarshalLoop(acc, comps) ==
    IF Len(comps) = 0 \/ acc.err # "nil" THEN acc
    ELSE ComponentsMarshalLoop(
             ComponentsMarshalStep(acc, Head(comps), Component_MarshalLen(Head(comps))),
             Tail(comps))

\* c.MarshalTo(b), b's capacity being its length
Components_MarshalTo(c, b) ==
    IF Len(b) < 2 THEN [err |-> "panic", b |-> b]
    ELSE Let(ComponentsMarshalLoop([err |-> "nil",
                                    b |-> [b EXCEPT ![1] = c.Tag, ![2] = c.Length],
                                    offset |-> 2],
                                   c.Component),
             LAMBDA acc : [err |-> acc.err, b |-> IF acc.err = "nil" THEN acc.b ELSE b])

Components_MarshalBinary(c) ==
    Let(Components_MarshalTo(c, Zeros(Components_MarshalLen(c))), LAMBDA r :
        IF r.err = "nil" THEN r ELSE [err |-> r.err, b |-> <<>>])

\* two fields in a row: the error, the two fields and the state after them
ParseTwo(st, b) ==
    Let(ParseNext(st, b), LAMBDA one :
    Let(ParseNext(one, b), LAMBDA two :
        [err |-> two.err, one |-> one.ie, two |-> two.ie, st |-> two]))

\* the switch of Component.UnmarshalBinary: c1 is the Component with its
\* header and InvokeID set, inv the parsing state after InvokeID
ParseComponentFields(code, c1, inv, b) ==
    IF code = Invoke
    THEN Let(ParseTwo(inv, b), LAMBDA p :
             [err |-> p.err,
              c |-> [c1 EXCEPT !.OperationCode = p.one, !.Parameter = p.two]])
    ELSE IF code \in {ReturnResultLast, ReturnResultNotLast}
    \* the wrapper, then offset = 0 and b = c.ResultRetres.Value
    THEN Let(ParseNext(inv, b), LAMBDA wrap :
             IF wrap.err # "nil" THEN [err |-> wrap.err, c |-> c1]
             ELSE Let(ParseTwo([wrap EXCEPT !.offset = 0], wrap.ie.Value), LAMBDA p :
                      [err |-> p.err,
                       c |-> [c1 EXCEPT !.ResultRetres = wrap.ie,
                                        !.OperationCode = p.one,
                                        !.Parameter = p.two]]))
    ELSE IF code = ReturnError
    THEN Let(ParseTwo(inv, b), LAMBDA p :
             [err |-> p.err,
              c |-> [c1 EXCEPT !.ErrorCode = p.one, !.Parameter = p.two]])
    ELSE IF code = Reject
    THEN Let(ParseNext(inv, b), LAMBDA one :
             [err |-> one.err, c |-> [c1 EXCEPT !.ProblemCode = one.ie]])
    ELSE [err |-> "nil", c |-> c1]

\* (c *Component).UnmarshalBinary(b) on a fresh Component, as ParseComponent calls it
ParseComponent(b) ==
    IF Len(b) < 2 THEN [err |-> "ErrUnexpectedEOF", c |-> NilComponent]
    ELSE Let(ParseNext([err |-> "nil", offset |-> 2, ie |-> NilIE], b), LAMBDA inv :
             IF inv.err # "nil" THEN [err |-> inv.err, c |-> NilComponent]
             ELSE Let(ParseComponentFields(
                          TagCode(b[1]),
                          [NilComponent EXCEPT !.nil = FALSE, !.Type = b[1],
                                               !.Length = b[2], !.InvokeID = inv.ie],
                          inv, b),
                      LAMBDA r :
                      IF r.err # "nil" THEN [err |-> r.err, c |-> NilComponent]
                      ELSE r))

\* the loop of Components.UnmarshalBinary: b is the current slice (the
\* component to read starts at b[2]), comps what has been appended
RECURSIVE ComponentsLoop(_, _)
ComponentsLoop(b, comps) ==
    IF Len(b) < 2 THEN [err |-> "nil", comps |-> comps]
    ELSE Let(ParseComponent(From(b, 2)), LAMBDA r :
             IF r.err # "nil" THEN [err |-> r.err, comps |-> comps]
             ELSE IF Len(b) - 2 = r.c.Length + 2
             THEN [err |-> "nil", comps |-> Append(comps, r.c)]
             ELSE IF Component_MarshalLen(r.c) > Len(b)
             THEN [err |-> "panic", comps |-> Append(comps, r.c)]
             ELSE ComponentsLoop(From(b, Component_MarshalLen(r.c)),
                                 Append(comps, r.c)))

\* (c *Components).UnmarshalBinary(b) on a fresh Components: the error and
\* the receiver as the call leaves it
Components_UnmarshalBinary(b) ==
    IF Len(b) < 2
    THEN [err |-> "ErrUnexpectedEOF", c |-> [NilComponents EXCEPT !.nil = FALSE]]
    ELSE Let(ComponentsLoop(b, <<>>), LAMBDA r :
             [err |-> r.err,
              c |-> [nil |-> FALSE, Tag |-> b[1], Length |-> b[2],
                     Component |-> r.comps]])

\* ParseComponents returns the receiver with a nil error on ErrUnexpectedEOF
ParseComponents(b) ==
    Let(Components_UnmarshalBinary(b), LAMBDA r :
        IF r.err = "nil" \/ r.err = "ErrUnexpectedEOF" THEN [err |-> "nil", c |-> r.c]
        ELSE [err |-> r.err, c |-> NilComponents])

\* the loop over the children of a ResultRetres in Components.SetValsFrom
RECURSIVE ResultValsLoop(_, _)
ResultValsLoop(comp, ies) ==
    IF Len(ies) = 0 THEN comp
    ELSE ResultValsLoop(
             IF Head(ies).Tag = 2 THEN [comp EXCEPT !.OperationCode = Head(ies)]
             ELSE IF Head(ies).Tag = 48 THEN [comp EXCEPT !.Parameter = Head(ies)]
             ELSE comp,
             Tail(ies))

\* one child iex, the i-th counted from 0, of a component of tag tag
ComponentVal(comp, tag, iex, i) ==
    IF tag = 161
    THEN IF iex.Tag = 2
         THEN IF i = 0 THEN [comp EXCEPT !.InvokeID = iex]
              ELSE [comp EXCEPT !.OperationCode = iex]
         ELSE IF iex.Tag = 48 THEN [comp EXCEPT !.Parameter = iex]
         ELSE comp
    ELSE IF tag \in {162, 167}
    THEN IF iex.Tag = 2
         THEN IF i = 0 THEN [comp EXCEPT !.InvokeID = iex] ELSE comp
         ELSE IF iex.Tag = 48
         THEN ResultValsLoop([comp EXCEPT !.ResultRetres = iex], iex.IE)
         ELSE comp
    ELSE IF tag = 163
    THEN IF iex.Tag = 2
         THEN IF i = 0 THEN [comp EXCEPT !.InvokeID = iex]
              ELSE [comp EXCEPT !.ErrorCode = iex]
         ELSE IF iex.Tag = 48 THEN [comp EXCEPT !.Parameter = iex]
         ELSE comp
    ELSE comp

\* the loop over the children ies of a component, i being the next index
RECURSIVE ComponentValsLoop(_, _, _, _)
ComponentValsLoop(comp, tag, ies, i) ==
    IF i >= Len(ies) THEN comp
    ELSE ComponentValsLoop(ComponentVal(comp, tag, ies[i + 1], i), tag, ies, i + 1)

\* (c *Components).SetValsFrom(berParsed) on a fresh Components
Components_SetValsFrom(berParsed) ==
    [nil |-> FALSE, Tag |-> berParsed.Tag, Length |-> berParsed.Length,
     Component |->
         [k \in 1..Len(berParsed.IE) |->
             ComponentValsLoop(
                 [NilComponent EXCEPT !.nil = FALSE, !.Type = berParsed.IE[k].Tag,
                                      !.Length = berParsed.IE[k].Length],
                 berParsed.IE[k].Tag, berParsed.IE[k].IE, 0)]]

(***************************************************************************)
(* dialogue-pdu.go: the Dialogue PDU                                       *)
(***************************************************************************)
AARQ == 0
AARE == 1
ABRT == 2

NetworkUnstructuredSsContext == 19
AnyTimeInfoEnquiryContext == 29
Accepted == 0
DialogueServiceUser == 1
Null == 0
DialogueAsID == 1

NilDialoguePDU ==
    [nil |-> TRUE, Type |-> 0, Length |-> 0, ProtocolVersion |-> NilIE,
     ApplicationContextName |-> NilIE, Result |-> NilIE,
     ResultSourceDiagnostic |-> NilIE, AbortSource |-> NilIE,
     UserInformation |-> NilIE]
\* the fields MarshalTo writes and MarshalLen counts, in order
DialoguePDUFields(d) ==
    Let(TagCode(d.Type), LAMBDA code :
        (IF code = AARQ THEN <<d.ProtocolVersion, d.ApplicationContextName>>
         ELSE IF code = AARE
         THEN <<d.ProtocolVersion, d.ApplicationContextName, d.Result,
                d.ResultSourceDiagnostic>>
         ELSE IF code = ABRT THEN <<d.AbortSource>>
         ELSE <<>>) \o <<d.UserInformation>>)

DialoguePDU_MarshalLen(d) == 2 + SumMarshalLen(Present(DialoguePDUFields(d)))

\* the switch of DialoguePDU.SetLength
SetLengthByType(d, code) ==
    IF code = AARQ
    THEN [d EXCEPT !.ProtocolVersion = SetLengthIfPresent(@),
                   !.ApplicationContextName = SetLengthIfPresent(@)]
    ELSE IF code = AARE
    THEN [d EXCEPT !.ProtocolVersion = SetLengthIfPresent(@),
                   !.ApplicationContextName = SetLengthIfPresent(@),
                   !.Result = SetLengthIfPresent(@),
                   !.ResultSourceDiagnostic = SetLengthIfPresent(@)]
    ELSE IF code = ABRT
    THEN [d EXCEPT !.AbortSource = SetLengthIfPresent(@)]
    ELSE d

DialoguePDU_SetLength(d) ==
    Let([SetLengthByType(d, TagCode(d.Type)) EXCEPT
            !.UserInformation = SetLengthIfPresent(@)],
        LAMBDA d2 : [d2 EXCEPT !.Length = U8(DialoguePDU_MarshalLen(d2) - 2)])

NewApplicationContextName(ctx, ver) ==
    MkIE(NewContextSpecificConstructorTag(1), 9, <<6, 7, 4, 0, 0, 1, 0, ctx, ver>>)

NewResult(res) == MkIE(NewContextSpecificConstructorTag(2), 3, <<2, 1, res>>)

NewResultSourceDiagnostic(dtype, reason) ==
    MkIE(NewContextSpecificConstructorTag(3), 5,
         <<NewContextSpecificConstructorTag(dtype), 3, 2, 1, reason>>)

\* the UserInformation IE the constructors build from userinfo[0], if given
NewUserInformation(userinfo) ==
    IF userinfo.nil THEN NilIE
    ELSE IE_SetLength(MkIE(NewContextSpecificConstructorTag(30), 0, userinfo.Value))

NewAARQ(protover, context, contextver, userinfo) ==
    DialoguePDU_SetLength(
        [NilDialoguePDU EXCEPT
            !.nil = FALSE,
            !.Type = NewApplicationWideConstructorTag(AARQ),
            !.ProtocolVersion =
                MkIE(NewContextSpecificPrimitiveTag(0), 0, <<7, U8(protover * 128)>>),
            !.ApplicationContextName = NewApplicationContextName(context, contextver),
            !.UserInformation = NewUserInformation(userinfo)])

NewAARE(protover, context, contextver, result, diagsrc, reason, userinfo) ==
    DialoguePDU_SetLength(
        [NilDialoguePDU EXCEPT
            !.nil = FALSE,
            !.Type = NewApplicationWideConstructorTag(AARE),
            !.ProtocolVersion =
                MkIE(NewContextSpecificPrimitiveTag(0), 0, <<7, U8(protover * 128)>>),
            !.ApplicationContextName = NewApplicationContextName(context, contextver),
            !.Result = NewResult(result),
            !.ResultSourceDiagnostic = NewResultSourceDiagnostic(diagsrc, reason),
            !.UserInformation = NewUserInformation(userinfo)])

NewABRT(abortsrc, userinfo) ==
    DialoguePDU_SetLength(
        [NilDialoguePDU EXCEPT
            !.nil = FALSE,
            !.Type = NewApplicationWideConstructorTag(ABRT),
            !.AbortSource = MkIE(NewContextSpecificPrimitiveTag(0), 1, <<abortsrc>>),
            !.UserInformation = NewUserInformation(userinfo)])

\* d.MarshalTo(b), b's capacity being its length
DialoguePDU_MarshalTo(d, b) ==
    IF Len(b) < 2 THEN [err |-> "ErrUnexpectedEOF", b |-> b]
    ELSE IF TagCode(d.Type) \notin {AARQ, AARE, ABRT}
    THEN [err |-> "InvalidCodeError", b |-> b]
    ELSE Let(MarshalFields([err |-> "nil",
                            b |-> [b EXCEPT ![1] = d.Type, ![2] = d.Length],
                            offset |-> 2],
                           DialoguePDUFields(d)),
             LAMBDA acc : [err |-> acc.err, b |-> IF acc.err = "nil" THEN acc.b ELSE b])

DialoguePDU_MarshalBinary(d) ==
    Let(DialoguePDU_MarshalTo(d, Zeros(DialoguePDU_MarshalLen(d))), LAMBDA r :
        IF r.err = "nil" THEN r ELSE [err |-> r.err, b |-> <<>>])

\* the optional trailing UserInformation of parseAARQFromBytes and the others
ParseUserInformation(st, b) ==
    IF st.err # "nil" THEN [st EXCEPT !.ie = NilIE]
    ELSE IF st.offset < Len(b) - 1 /\ b[st.offset + 1] = NewContextSpecificConstructorTag(30)
    THEN ParseNext(st, b)
    ELSE [st EXCEPT !.ie = NilIE]

parseAARQFromBytes(d, b) ==
    Let(ParseTwo([err |-> "nil", offset |-> 2, ie |-> NilIE], b), LAMBDA p :
    Let(ParseUserInformation(p.st, b), LAMBDA ui :
        [err |-> ui.err,
         d |-> [d EXCEPT !.ProtocolVersion = p.one,
                         !.ApplicationContextName = p.two,
                         !.UserInformation = ui.ie]]))

parseAAREFromBytes(d, b) ==
    Let(ParseTwo([err |-> "nil", offset |-> 2, ie |-> NilIE], b), LAMBDA p :
    Let(ParseTwo(p.st, b), LAMBDA q :
    Let(ParseUserInformation(q.st, b), LAMBDA ui :
        [err |-> ui.err,
         d |-> [d EXCEPT !.ProtocolVersion = p.one,
                         !.ApplicationContextName = p.two,
                         !.Result = q.one,
                         !.ResultSourceDiagnostic = q.two,
                         !.UserInformation = ui.ie]])))

parseABRTFromBytes(d, b) ==
    Let(ParseNext([err |-> "nil", offset |-> 2, ie |-> NilIE], b), LAMBDA f :
    Let(ParseUserInformation(f, b), LAMBDA ui :
        [err |-> ui.err,
         d |-> [d EXCEPT !.AbortSource = f.ie, !.UserInformation = ui.ie]]))

\* the switch of DialoguePDU.UnmarshalBinary, d having its header set
ParseDialoguePDUByType(code, d, b) ==
    IF code = AARQ THEN parseAARQFromBytes(d, b)
    ELSE IF code = AARE THEN parseAAREFromBytes(d, b)
    ELSE IF code = ABRT THEN parseABRTFromBytes(d, b)
    ELSE [err |-> "InvalidCodeError", d |-> d]

\* (d *DialoguePDU).UnmarshalBinary(b) on a fresh DialoguePDU, as
\* ParseDialoguePDU calls it
ParseDialoguePDU(b) ==
    IF Len(b) < 4 THEN [err |-> "ErrUnexpectedEOF", d |-> NilDialoguePDU]
    ELSE Let(ParseDialoguePDUByType(
                 TagCode(b[1]),
                 [NilDialoguePDU EXCEPT !.nil = FALSE, !.Type = b[1], !.Length = b[2]],
                 b),
             LAMBDA r : IF r.err # "nil" THEN [err |-> r.err, d |-> NilDialoguePDU]
                        ELSE r)

\* DialoguePDU.Context(): the name for the contexts the model uses, "other"
\* standing for the remaining names of the table and "" for no name
DialoguePDU_Context(d) ==
    IF d.ApplicationContextName.nil THEN ""
    ELSE IF Len(d.ApplicationContextName.Value) < 8 THEN ""
    ELSE IF TagCode(d.Type) \in {AARQ, AARE}
    THEN LET ctx == d.ApplicationContextName.Value[8]
         IN  IF ctx = NetworkUnstructuredSsContext THEN "networkUnstructuredSsContext"
             ELSE IF ctx = AnyTimeInfoEnquiryContext THEN "anyTimeInfoEnquiryContext"
             ELSE IF ctx \in (1..28) \cup (31..39) \cup {42, 43} THEN "other"
             ELSE ""
    ELSE ""

\* fmt.Sprintf("%d", n) for a byte n
Sprintf_d(n) ==
    LET digit == <<"0", "1", "2", "3", "4", "5", "6", "7", "8", "9">>
    IN  IF n < 10 THEN digit[n + 1]
        ELSE IF n < 100 THEN digit[(n \div 10) + 1] \o digit[(n % 10) + 1]
        ELSE digit[(n \div 100) + 1] \o digit[((n \div 10) % 10) + 1]
                 \o digit[(n % 10) + 1]

\* DialoguePDU.ContextVersion(): the string returned, or the panic of
\* appCtx.Value[8] on a value of eight bytes
DialoguePDU_ContextVersion(d) ==
    IF d.ApplicationContextName.nil THEN [panic |-> FALSE, v |-> ""]
    ELSE IF Len(d.ApplicationContextName.Value) < 8 THEN [panic |-> FALSE, v |-> ""]
    ELSE IF TagCode(d.Type) \in {AARQ, AARE}
    THEN IF Len(d.ApplicationContextName.Value) < 9 THEN [panic |-> TRUE, v |-> ""]
         ELSE [panic |-> FALSE, v |-> Sprintf_d(d.ApplicationContextName.Value[9])]
    ELSE [panic |-> FALSE, v |-> ""]

(***************************************************************************)
(* dialogue-pdu.go: the Dialogue Portion                                   *)
(***************************************************************************)
NilDialogue ==
    [nil |-> TRUE, Tag |-> 0, Length |-> 0, ExternalTag |-> 0, ExternalLength |-> 0,
     ObjectIdentifier |-> NilIE, SingleAsn1Type |-> NilIE,
     DialoguePDU |-> NilDialoguePDU, Payload |-> <<>>]

Dialogue_MarshalLen(d) ==
    4 + SumMarshalLen(Present(<<d.ObjectIdentifier, d.SingleAsn1Type>>))
      + (IF d.DialoguePDU.nil THEN 0 ELSE DialoguePDU_MarshalLen(d.DialoguePDU))
      + Len(d.Payload)

Dialogue_SetLength(d) ==
    [d EXCEPT !.Length = U8(Dialogue_MarshalLen(d) - 2),
              !.ExternalLength = U8(Dialogue_MarshalLen(d) - 4)]

NewDialogue(oid, ver, pdu, payload) ==
    Dialogue_SetLength(
        [nil |-> FALSE,
         Tag |-> NewApplicationWideConstructorTag(11),
         Length |-> 0,
         ExternalTag |-> NewUniversalConstructorTag(8),
         ExternalLength |-> 0,
         ObjectIdentifier |-> MkIE(NewUniversalPrimitiveTag(6), 7,
                                   <<0, 17, 134, 5, 1, oid, ver>>),
         SingleAsn1Type |-> MkIE(NewContextSpecificConstructorTag(0),
                                 U8(DialoguePDU_MarshalLen(pdu)), <<>>),
         DialoguePDU |-> pdu,
         Payload |-> payload])

\* the end of Dialogue.MarshalTo: copy(b[offset:], d.Payload)
CopyPayload(acc, payload) ==
    IF acc.err # "nil" THEN acc
    ELSE [acc EXCEPT !.b = Copy(acc.b, acc.offset, Len(acc.b), payload)]

\* the DialoguePDU of Dialogue.MarshalTo, when it is not nil
MarshalPDUAt(acc, pdu, ml) ==
    IF acc.err # "nil" THEN acc
    ELSE IF acc.offset + ml > Len(acc.b) THEN [acc EXCEPT !.err = "panic"]
    ELSE Marshalled(acc, ml,
                    DialoguePDU_MarshalTo(pdu, Slice(acc.b, acc.offset, acc.offset + ml)))

MarshalPDU(acc, pdu) ==
    IF pdu.nil THEN acc ELSE MarshalPDUAt(acc, pdu, DialoguePDU_MarshalLen(pdu))

\* d.MarshalTo(b), b's capacity being its length
Dialogue_MarshalTo(d, b) ==
    IF Len(b) < 4 THEN [err |-> "ErrUnexpectedEOF", b |-> b]
    ELSE Let(CopyPayload(
                 MarshalPDU(
                     MarshalFields(
                         [err |-> "nil",
                          b |-> [b EXCEPT ![1] = d.Tag, ![2] = d.Length,
                                          ![3] = d.ExternalTag,
                                          ![4] = d.ExternalLength],
                          offset |-> 4],
                         <<d.ObjectIdentifier, d.SingleAsn1Type>>),
                     d.DialoguePDU),
                 d.Payload),
             LAMBDA acc : [err |-> acc.err, b |-> IF acc.err = "nil" THEN acc.b ELSE b])

Dialogue_MarshalBinary(d) ==
    Let(Dialogue_MarshalTo(d, Zeros(Dialogue_MarshalLen(d))), LAMBDA r :
        IF r.err = "nil" THEN r ELSE [err |-> r.err, b |-> <<>>])

\* the DialoguePDU inside the SingleAsn1Type that state sat holds
ParsePDUOf(sat) ==
    IF sat.err = "nil" THEN ParseDialoguePDU(sat.ie.Value)
    ELSE [err |-> sat.err, d |-> NilDialoguePDU]

\* (d *Dialogue).UnmarshalBinary(b) on a fresh Dialogue, as ParseDialogue calls it
ParseDialogue(b) ==
    IF Len(b) < 5 THEN [err |-> "ErrUnexpectedEOF", d |-> NilDialogue]
    ELSE Let(ParseTwo([err |-> "nil", offset |-> 4, ie |-> NilIE], b), LAMBDA p :
         Let(ParsePDUOf(p.st), LAMBDA pdu :
             IF pdu.err # "nil" THEN [err |-> pdu.err, d |-> NilDialogue]
             ELSE IF p.st.offset > Len(b) THEN [err |-> "panic", d |-> NilDialogue]
             ELSE [err |-> "nil",
                   d |-> [nil |-> FALSE, Tag |-> b[1], Length |-> b[2],
                          ExternalTag |-> b[3], ExternalLength |-> b[4],
                          ObjectIdentifier |-> p.one, SingleAsn1Type |-> p.two,
                          DialoguePDU |-> pdu.d, Payload |-> From(b, p.st.offset)]]))

Dialogue_Context(d) ==
    IF d.DialoguePDU.nil THEN "" ELSE DialoguePDU_Context(d.DialoguePDU)

\* the loop of Dialogue.SetValsFrom over the children of the External: st
\* holds the Dialogue d, the pointer dpdu and the error so far
RECURSIVE ExternalValsLoop(_, _)
ExternalValsLoop(st, ies) ==
    IF Len(ies) = 0 \/ st.err # "nil" THEN st
    ELSE ExternalValsLoop(
             IF Head(ies).Tag = 6
             THEN [st EXCEPT !.d.ObjectIdentifier = Head(ies)]
             ELSE IF Head(ies).Tag = 160
             THEN IF Len(Head(ies).IE) = 0 THEN [st EXCEPT !.err = "panic"]
                  ELSE [st EXCEPT !.d.SingleAsn1Type = Head(ies),
                                  !.dpdu = Head(ies).IE[1]]
             ELSE st,
             Tail(ies))

\* the loop of Dialogue.SetValsFrom over the children of the Dialogue PDU
RECURSIVE PDUValsLoop(_, _)
PDUValsLoop(st, ies) ==
    IF Len(ies) = 0 \/ st.err # "nil" THEN st
    ELSE PDUValsLoop(
             IF Head(ies).Tag \notin {128, 161, 162, 163} THEN st
             ELSE IF st.d.DialoguePDU.nil THEN [st EXCEPT !.err = "panic"]
             ELSE IF Head(ies).Tag = 128
             THEN [st EXCEPT !.d.DialoguePDU.ProtocolVersion = Head(ies)]
             ELSE IF Head(ies).Tag = 161
             THEN [st EXCEPT !.d.DialoguePDU.ApplicationContextName = Head(ies)]
             ELSE IF Head(ies).Tag = 162
             THEN [st EXCEPT !.d.DialoguePDU.Result = Head(ies)]
             ELSE [st EXCEPT !.d.DialoguePDU.ResultSourceDiagnostic = Head(ies)],
             Tail(ies))

\* the body of the loop of Dialogue.SetValsFrom after the External has been
\* read: dpdu.Tag is read through a pointer that is nil when no
\* SingleAsn1Type was found
DialoguePDUVals(st) ==
    IF st.err # "nil" THEN st
    ELSE IF st.dpdu.nil THEN [st EXCEPT !.err = "panic"]
    ELSE PDUValsLoop(
             IF TagCode(st.dpdu.Tag) \in {AARQ, AARE, ABRT}
             THEN [st EXCEPT !.d.DialoguePDU =
                      [NilDialoguePDU EXCEPT !.nil = FALSE, !.Type = st.dpdu.Tag,
                                             !.Length = st.dpdu.Length]]
             ELSE st,
             st.dpdu.IE)

\* the loop of Dialogue.SetValsFrom over the children of the parsed IE
RECURSIVE DialogueValsLoop(_, _)
DialogueValsLoop(st, ies) ==
    IF Len(ies) = 0 \/ st.err # "nil" THEN st
    ELSE DialogueValsLoop(
             DialoguePDUVals(
                 IF Head(ies).Tag = 40
                 THEN ExternalValsLoop(
                          [st EXCEPT !.dpdu = NilIE,
                                     !.d.ExternalTag = Head(ies).Tag,
                                     !.d.ExternalLength = Head(ies).Length],
                          Head(ies).IE)
                 ELSE [st EXCEPT !.dpdu = NilIE]),
             Tail(ies))

\* (d *Dialogue).SetValsFrom(berParsed) on a fresh Dialogue
Dialogue_SetValsFrom(berParsed) ==
    DialogueValsLoop(
        [err |-> "nil", dpdu |-> NilIE,
         d |-> [NilDialogue EXCEPT !.nil = FALSE, !.Tag = berParsed.Tag,
                                   !.Length = berParsed.Length]],
        berParsed.IE)

(***************************************************************************)
(* tcap.go: the TCAP aggregate                                             *)
(***************************************************************************)
NilTCAP ==
    [nil |-> TRUE, Transaction |-> NilTransaction, Dialogue |-> NilDialogue,
     Components |-> NilComponents]

TCAP_MarshalLen(t) ==
    (IF t.Components.nil THEN 0 ELSE Components_MarshalLen(t.Components))
    + (IF t.Dialogue.nil THEN 0 ELSE Dialogue_MarshalLen(t.Dialogue))
    + (IF t.Transaction.nil THEN 0 ELSE Transaction_MarshalLen(t.Transaction))

\* a faulty variant of TransactionLengthPlus: the Dialogue is not added
TransactionLengthPlus_NoDialogue(length, t) ==
    IF t.Components.nil THEN length
    ELSE U8(length + U8(Components_MarshalLen(t.Components)))

\* the Transaction length after the additions SetLength makes to it
TransactionLengthPlus(length, t) ==
    Let(IF t.Components.nil THEN length
        ELSE U8(length + U8(Components_MarshalLen(t.Components))),
        LAMBDA withC :
        IF t.Dialogue.nil THEN withC
        ELSE U8(withC + U8(Dialogue_MarshalLen(t.Dialogue))))

\* the Transaction part of TCAP.SetLength, the other portions being set
SetTransactionLength(t, tx) ==
    [t EXCEPT !.Transaction = [tx EXCEPT !.Length = TransactionLengthPlus(tx.Length, t)]]

TCAP_SetLength(t) ==
    Let([t EXCEPT !.Components = IF @.nil THEN @ ELSE Components_SetLength(@),
                  !.Dialogue = IF @.nil THEN @ ELSE Dialogue_SetLength(@)],
        LAMBDA t1 :
        IF t1.Transaction.nil THEN t1
        ELSE SetTransactionLength(t1, Transaction_SetLength(t1.Transaction)))


NewBeginInvoke(otid, invID, opCode, payload) ==
    TCAP_SetLength(
        [nil |-> FALSE,
         Transaction |-> NewBegin(otid, <<>>),
         Dialogue |-> NilDialogue,
         Components |-> NewComponents(<<NewInvoke(invID, -1, opCode, TRUE, payload)>>)])

NewBeginInvokeWithDialogue(otid, dlgType, ctx, ctxver, invID, opCode, payload) ==
    TCAP_SetLength(
        [NewBeginInvoke(otid, invID, opCode, payload) EXCEPT
            !.Dialogue = NewDialogue(dlgType, 1, NewAARQ(1, ctx, ctxver, NilIE), <<>>)])

NewContinueInvoke(otid, dtid, invID, opCode, payload) ==
    TCAP_SetLength(
        [nil |-> FALSE,
         Transaction |-> NewContinue(otid, dtid, <<>>),
         Dialogue |-> NilDialogue,
         Components |-> NewComponents(<<NewInvoke(invID, -1, opCode, TRUE, payload)>>)])

NewEndReturnResult(dtid, invID, opCode, isLast, payload) ==
    TCAP_SetLength(
        [nil |-> FALSE,
         Transaction |-> NewEnd(dtid, <<>>),
         Dialogue |-> NilDialogue,
         Components |->
             NewComponents(<<NewReturnResult(invID, opCode, TRUE, isLast, payload)>>)])

NewEndReturnResultWithDialogue(dtid, dlgType, ctx, ctxver, invID, opCode, isLast, payload) ==
    TCAP_SetLength(
        [NewEndReturnResult(dtid, invID, opCode, isLast, payload) EXCEPT
            !.Dialogue = NewDialogue(dlgType, 1,
                             NewAARE(1, ctx, ctxver, Accepted, DialogueServiceUser, Null,
                                     NilIE),
                             <<>>)])

\* the portions of TCAP.MarshalTo, each written when it is not nil:
\*   portion.MarshalTo(b[offset : offset+portion.MarshalLen()])
MarshalTransactionAt(acc, tx, ml) ==
    IF acc.offset + ml > Len(acc.b) THEN [acc EXCEPT !.err = "panic"]
    ELSE Marshalled(acc, ml,
                    Transaction_MarshalTo(tx, Slice(acc.b, acc.offset, acc.offset + ml)))

MarshalTransaction(acc, tx) ==
    IF acc.err # "nil" \/ tx.nil THEN acc
    ELSE MarshalTransactionAt(acc, tx, Transaction_MarshalLen(tx))

MarshalDialogueAt(acc, d, ml) ==
    IF acc.offset + ml > Len(acc.b) THEN [acc EXCEPT !.err = "panic"]
    ELSE Marshalled(acc, ml,
                    Dialogue_MarshalTo(d, Slice(acc.b, acc.offset, acc.offset + ml)))

MarshalDialogue(acc, d) ==
    IF acc.err # "nil" \/ d.nil THEN acc
    ELSE MarshalDialogueAt(acc, d, Dialogue_MarshalLen(d))

MarshalComponentsAt(acc, c, ml) ==
    IF acc.offset + ml > Len(acc.b) THEN [acc EXCEPT !.err = "panic"]
    ELSE Marshalled(acc, ml,
                    Components_MarshalTo(c, Slice(acc.b, acc.offset, acc.offset + ml)))

MarshalComponents(acc, c) ==
    IF acc.err # "nil" \/ c.nil THEN acc
    ELSE MarshalComponentsAt(acc, c, Components_MarshalLen(c))

\* t.MarshalTo(b), b's capacity being its length
TCAP_MarshalTo(t, b) ==
    Let(MarshalComponents(
            MarshalDialogue(
                MarshalTransaction([err |-> "nil", b |-> b, offset |-> 0],
                                   t.Transaction),
                t.Dialogue),
            t.Components),
        LAMBDA acc : [err |-> acc.err, b |-> IF acc.err = "nil" THEN acc.b ELSE b])

\* t.MarshalBinary(): b := make([]byte, t.MarshalLen()); t.MarshalTo(b)
TCAP_MarshalBinary(t) ==
    Let(TCAP_MarshalTo(t, Zeros(TCAP_MarshalLen(t))), LAMBDA r :
        IF r.err = "nil" THEN r ELSE [err |-> r.err, b |-> <<>>])

\* the end of the Dialogue branch: the Components in the Dialogue's payload
UnmarshalComponentsOf(tx, d) ==
    Let(ParseComponents(d.Payload), LAMBDA pc :
        IF pc.err # "nil" THEN [err |-> pc.err, done |-> TRUE, t |-> NilTCAP]
        ELSE IF Components_MarshalLen(pc.c) > Len(d.Payload)
        THEN [err |-> "panic", done |-> TRUE, t |-> NilTCAP]
        ELSE [err |-> "nil", done |-> FALSE,
              t |-> [nil |-> FALSE,
                     Transaction |-> tx,
                     Dialogue |->
                         [d EXCEPT !.Payload =
                             From(d.Payload, Components_MarshalLen(pc.c))],
                     Components |-> pc.c]])

\* the Dialogue branch of TCAP.UnmarshalBinary, after ParseTransaction
UnmarshalDialogueBranch(tx) ==
    Let(ParseDialogue(tx.Payload), LAMBDA pd :
        IF pd.err # "nil" THEN [err |-> pd.err, done |-> TRUE, t |-> NilTCAP]
        ELSE IF Len(pd.d.Payload) = 0
        THEN [err |-> "nil", done |-> TRUE,
              t |-> [nil |-> FALSE, Transaction |-> tx, Dialogue |-> pd.d,
                     Components |-> NilComponents]]
        ELSE IF Dialogue_MarshalLen(pd.d) > Len(tx.Payload)
        THEN [err |-> "panic", done |-> TRUE, t |-> NilTCAP]
        ELSE UnmarshalComponentsOf(
                 [tx EXCEPT !.Payload = From(tx.Payload, Dialogue_MarshalLen(pd.d))],
                 pd.d))

\* the Components branch of TCAP.UnmarshalBinary
UnmarshalComponentsBranch(tx) ==
    Let(ParseComponents(tx.Payload), LAMBDA pc :
        IF pc.err # "nil" THEN [err |-> pc.err, done |-> TRUE, t |-> NilTCAP]
        ELSE IF Components_MarshalLen(pc.c) > Len(tx.Payload)
        THEN [err |-> "panic", done |-> TRUE, t |-> NilTCAP]
        ELSE [err |-> "nil", done |-> FALSE,
              t |-> [nil |-> FALSE,
                     Transaction |->
                         [tx EXCEPT !.Payload =
                             From(tx.Payload, Components_MarshalLen(pc.c))],
                     Dialogue |-> NilDialogue,
                     Components |-> pc.c]])

\* the switch of TCAP.UnmarshalBinary on the first byte of a payload that is
\* not empty; done tells that the call returned from inside the switch
UnmarshalPayload(tx) ==
    IF tx.Payload[1] = 107 THEN UnmarshalDialogueBranch(tx)
    ELSE IF tx.Payload[1] = 108 THEN UnmarshalComponentsBranch(tx)
    ELSE [err |-> "nil", done |-> FALSE,
          t |-> [nil |-> FALSE, Transaction |-> tx, Dialogue |-> NilDialogue,
                 Components |-> NilComponents]]

\* the end of TCAP.UnmarshalBinary: t is the TCAP after t.SetLength()
CheckLength(transactionLength, t) ==
    IF transactionLength # t.Transaction.Length
    THEN [err |-> "LengthMismatch", t |-> NilTCAP]
    ELSE [err |-> "nil", t |-> t]

\* what TCAP.UnmarshalBinary does with the switch's outcome br
AfterPayload(transactionLength, br) ==
    IF br.err # "nil" THEN [err |-> br.err, t |-> NilTCAP]
    ELSE IF br.done THEN [err |-> "nil", t |-> br.t]
    ELSE CheckLength(transactionLength, TCAP_SetLength(br.t))

\* Parse(b): (t *TCAP).UnmarshalBinary(b) on a fresh TCAP; a failure returns
\* no TCAP.  t.Transaction.Length is read before the error of
\* ParseTransaction is looked at, so an error there is a nil dereference.
Parse(bytes, spare) ==
    Let(ParseTransaction(bytes, spare), LAMBDA pt :
        IF pt.err # "nil" THEN [err |-> "panic", t |-> NilTCAP]
        ELSE IF Len(pt.t.Payload) = 0
        THEN [err |-> "nil",
              t |-> [nil |-> FALSE, Transaction |-> pt.t, Dialogue |-> NilDialogue,
                     Components |-> NilComponents]]
        ELSE AfterPayload(pt.t.Length, UnmarshalPayload(pt.t)))

\* the inner loop of ParseBER over the children of the Transaction's IE
RECURSIVE PortionsLoop(_, _)
PortionsLoop(st, ies) ==
    IF Len(ies) = 0 \/ st.err # "nil" THEN st
    ELSE PortionsLoop(
             IF Head(ies).Tag = 107
             THEN [err |-> Dialogue_SetValsFrom(Head(ies)).err,
                   t |-> [st.t EXCEPT !.Dialogue = Dialogue_SetValsFrom(Head(ies)).d]]
             ELSE IF Head(ies).Tag = 108
             THEN [st EXCEPT !.t.Components = Components_SetValsFrom(Head(ies))]
             ELSE st,
             Tail(ies))

\* the TCAP that ParseBER builds from the parsed IE tx
TCAPFrom(tx) ==
    PortionsLoop(
        [err |-> "nil",
         t |-> [nil |-> FALSE, Transaction |-> Transaction_SetValsFrom(tx),
                Dialogue |-> NilDialogue, Components |-> NilComponents]],
        tx.IE)

\* ParseBER(b): one TCAP for every IE that ParseAsBER returns
ParseBER(b) ==
    Let(ParseAsBER(b), LAMBDA parsed :
        IF parsed.err # "nil" THEN [err |-> parsed.err, tcaps |-> <<>>]
        ELSE Let([k \in 1..Len(parsed.ies) |-> TCAPFrom(parsed.ies[k])], LAMBDA r :
                 IF \E k \in 1..Len(r) : r[k].err # "nil"
                 THEN [err |-> "panic", tcaps |-> <<>>]
                 ELSE [err |-> "nil", tcaps |-> [k \in 1..Len(r) |-> r[k].t]]))

\* binary.BigEndian.Uint32(v): panics when v is shorter than 4 bytes
Uint32(v) ==
    IF Len(v) < 4 THEN [panic |-> TRUE, v |-> 0]
    ELSE [panic |-> FALSE, v |-> ((v[1] * 256 + v[2]) * 256 + v[3]) * 256 + v[4]]

TCAP_OTID(t) ==
    IF ~t.Transaction.nil /\ ~t.Transaction.OrigTransactionID.nil
    THEN Uint32(t.Transaction.OrigTransactionID.Value)
    ELSE [panic |-> FALSE, v |-> 0]

TCAP_AppContextName(t) == IF t.Dialogue.nil THEN "" ELSE Dialogue_Context(t.Dialogue)

ComponentTypeString(c) ==
    Let(TagCode(c.Type), LAMBDA code :
        IF code = Invoke THEN "invoke"
        ELSE IF code = ReturnResultLast THEN "returnResultLast"
        ELSE IF code = ReturnError THEN "returnError"
        ELSE IF code = Reject THEN "reject"
        ELSE IF code = ReturnResultNotLast THEN "returnResultNotLast"
        ELSE "")

\* the loop of TCAP.ComponentType
RECURSIVE ComponentTypes(_)
ComponentTypes(comps) ==
    IF Len(comps) = 0 THEN <<>>
    ELSE <<ComponentTypeString(Head(comps))>> \o ComponentTypes(Tail(comps))

TCAP_ComponentType(t) ==
    IF t.Components.nil THEN <<>> ELSE ComponentTypes(t.Components.Component)

(***************************************************************************)
(* The state machine: a caller of the package.                             *)
(*                                                                         *)
(*   op    the function called last ("init" before the first call)         *)
(*   tree  the value it returned: [kind, val, from, args, parsed]; kind    *)
(*         "nil" when it returned none; from, args name the constructor    *)
(*         call, parsed tells a decoded value from a constructed one       *)
(*   buf   the byte slice the caller holds: (bytes, spare)                 *)
(*   ret   the error returned, "nil" for none, "panic" for a run-time      *)
(*         panic                                                           *)
(*   src   the tree (or writeLength call) that buf was marshalled from     *)
(*   wire  the bytes the tree was decoded from                             *)
(*   trips the number of MarshalBinary calls made                          *)
(*   race  the two threads of a run that shares its tree: fin is where     *)
(*         the thread in TCAP.SetLength stands, enc where the thread in    *)
(*         TCAP.MarshalBinary stands and the buffer it is filling; both    *)
(*         idle in a run of one thread                                     *)
(*                                                                         *)
(* A run starts either from bytes received, which it decodes, or with      *)
(* nothing, and then calls a constructor.  The decoders are functions of   *)
(* the bytes alone, so a run decodes the bytes it holds once.              *)
(***************************************************************************)
NoTree == [kind |-> "nil", val |-> <<>>, from |-> "none", args |-> <<>>, parsed |-> FALSE]

NoBuf == [bytes |-> <<>>, spare |-> <<>>]

NoWire == [set |-> FALSE, bytes |-> <<>>]

NoAcc == [err |-> "nil", b |-> <<>>, offset |-> 0]

NoRace ==
    [fin |-> [pc |-> "idle", i |-> 0],
     enc |-> [pc |-> "idle", acc |-> NoAcc, serial |-> FALSE]]

Built(kind, val, from, args) ==
    [kind |-> kind, val |-> val, from |-> from, args |-> args, parsed |-> FALSE]

Decoded(kind, val, from) ==
    [kind |-> kind, val |-> val, from |-> from, args |-> <<>>, parsed |-> TRUE]

\* the value of n bytes handed to NewIE
Pattern(n) == SubSeq([k \in 1..n |-> k % 256], 1, n)

\* the 56 bytes of the Begin / AARQ / Invoke message of codec_test.go
ScenarioA ==
    << 98, 54, 72, 4, 17, 17, 17, 17, 107, 30, 40, 28, 6, 7, 0, 17, 134, 5, 1, 1, 1,
       160, 17, 96, 15, 128, 2, 7, 128, 161, 9, 6, 7, 4, 0, 0, 1, 0, 29, 3,
       108, 14, 161, 12, 2, 1, 0, 2, 1, 71, 48, 4, 222, 173, 190, 239 >>

\* bytes of the raw buffers: the short-form lengths 0 and 2 (also a
\* primitive tag), a constructor tag (0x30, also a length no raw buffer
\* holds) and the long-form length octet 0x81
RawBytes == {0, 2, 48, 129}

RawFeeds ==
    { [bytes |-> b, spare |-> <<>>] :
        b \in UNION { [1..n -> RawBytes] : n \in 0..MaxFeedLen } }

\* the tags NewIE is called with: OCTET STRING and SEQUENCE
IETags == {NewUniversalPrimitiveTag(4), NewUniversalConstructorTag(16)}

\* the lengths of the values NewIE is called with: around the empty value,
\* around the step from the short to the long form, and the longest
ValueLens == {0, 1, 2, 127, 128, 129, MaxValueLen}

TransactionIDs == {1, 286331153}

Payloads == {<<>>, <<222, 173, 190, 239>>, Pattern(128), Pattern(MaxValueLen)}

\* Transaction Portions on the wire: one of each type, and one whose type
\* code (3) is none of the five
TransactionWires ==
    { Transaction_MarshalBinary(t).b :
        t \in { NewUnidirectional(<<4, 1, 0>>), NewBegin(1, <<4, 1, 0>>),
                NewEnd(1, <<>>), NewContinue(1, 2, <<4, 1, 0>>),
                NewAbort(2, 1, <<>>),
                Transaction_SetLength(
                    [NewBegin(1, <<4, 1, 0>>) EXCEPT
                        !.Type = NewApplicationWideConstructorTag(3)]) } }

\* b[:k] of a received message: the bytes within len, and the spare
\* capacity behind them (none when the caller copied the bytes out)
Prefixes(b) ==
    UNION { { [bytes |-> SubSeq(b, 1, k), spare |-> sp] :
                sp \in {<<>>, SubSeq(b, k + 1, IF Len(b) < k + MaxSpare THEN Len(b)
                                               ELSE k + MaxSpare)} } :
            k \in 0..Len(b) }

TransactionFeeds == UNION { Prefixes(b) : b \in TransactionWires }

\* b with its second octet, the Transaction length, replaced
WithLengthOctet(b, v) == [b EXCEPT ![2] = v]

\* TCAP messages on the wire: a Begin whose payload is empty, a Dialogue
\* Portion alone, an IE that is neither Dialogue nor Components, or a
\* Component Portion alone
MessageWires ==
    { Transaction_MarshalBinary(NewBegin(1, pl)).b :
        pl \in { <<>>,
                 Dialogue_MarshalBinary(
                     NewDialogue(DialogueAsID, 1,
                                 NewAARQ(1, AnyTimeInfoEnquiryContext, 3, NilIE), <<>>)).b,
                 <<4, 1, 0>>,
                 Components_MarshalBinary(
                     NewComponents(<<NewInvoke(0, -1, 71, TRUE, <<1>>)>>)).b } }

\* the USSD request of tcap_test.go whose Transaction, Components, Invoke and
\* parameter lengths are in the long form
UssdRequestLong ==
    << 98, 129, 242, 72, 4, 0, 0, 0, 10, 107, 63, 40, 61, 6, 7, 0, 17, 134, 5, 1,
       1, 1, 160, 50, 96, 48, 128, 2, 7, 128, 161, 9, 6, 7, 4, 0, 0, 1, 0, 19, 2,
       190, 31, 40, 29, 6, 7, 4, 0, 0, 1, 1, 1, 1, 160, 18, 160, 16, 128, 6, 145,
       33, 67, 101, 135, 249, 129, 6, 145, 33, 67, 101, 135, 249, 108, 129, 168,
       161, 129, 165, 2, 1, 0, 2, 1, 59, 48, 129, 156, 4, 1, 15, 4, 129, 140, 84,
       116, 216, 189, 6, 229, 223, 117, 144, 249, 45, 7, 213, 231, 105, 247, 25,
       68, 71, 151, 65, 199, 55, 59, 236, 62, 131, 170, 211, 41, 17, 52, 47, 203,
       237, 101, 185, 11, 148, 166, 131, 210, 115, 16, 185, 108, 47, 179, 223,
       240, 50, 25, 4, 175, 203, 203, 236, 60, 232, 237, 6, 157, 223, 236, 176,
       251, 12, 10, 187, 201, 160, 52, 29, 84, 159, 151, 231, 160, 233, 112, 8,
       101, 129, 154, 179, 106, 144, 5, 154, 14, 169, 80, 22, 40, 56, 117, 178,
       64, 67, 225, 148, 5, 58, 78, 155, 55, 80, 216, 77, 6, 37, 169, 85, 208,
       156, 30, 118, 147, 195, 114, 242, 220, 5, 66, 190, 225, 101, 80, 254, 93,
       7, 149, 221, 234, 119, 30, 68, 71, 187, 241, 128, 8, 145, 17, 17, 17, 17,
       17, 17, 241 >>

\* the same request with a short text: every length in the short form
UssdRequestShort ==
    << 98, 102, 72, 4, 0, 0, 0, 2, 107, 63, 40, 61, 6, 7, 0, 17, 134, 5, 1, 1, 1,
       160, 50, 96, 48, 128, 2, 7, 128, 161, 9, 6, 7, 4, 0, 0, 1, 0, 19, 2, 190,
       31, 40, 29, 6, 7, 4, 0, 0, 1, 1, 1, 1, 160, 18, 160, 16, 128, 6, 145, 33,
       67, 101, 135, 249, 129, 6, 145, 33, 67, 101, 135, 249, 108, 29, 161, 27, 2,
       1, 0, 2, 1, 59, 48, 19, 4, 1, 15, 4, 4, 244, 242, 156, 14, 128, 8, 145, 17,
       17, 17, 17, 17, 17, 241 >>

\* the received messages: as sent, with the Transaction length octet one
\* too large, the message of codec_test.go and the two of tcap_test.go
MessageFeeds ==
    { [bytes |-> b, spare |-> <<>>] :
        b \in {ScenarioA, UssdRequestLong, UssdRequestShort} \cup MessageWires
              \cup { WithLengthOctet(m, U8(m[2] + 1)) : m \in MessageWires } }

\* the components NewComponents is called with: an Invoke with or without a
\* LinkedID, a ReturnResultLast, a ReturnError and a Reject, with an empty
\* parameter or one of four bytes
ComponentParams == {<<>>, <<222, 173, 190, 239>>}

Invokes == { NewInvoke(0, lkID, 71, TRUE, p) : lkID \in {-1, 1}, p \in ComponentParams }

ReturnResults == { NewReturnResult(1, 71, TRUE, TRUE, p) : p \in ComponentParams }

\* a Reject as a peer sends it: under the Reject tag, with its problem code
PeerReject ==
    Component_SetLength([NewReject(0, 1, 2, <<>>) EXCEPT
                             !.Type = NewContextSpecificConstructorTag(Reject)])

\* runs of two and three components of the five types, every parameter of
\* four bytes and no LinkedID: a ReturnResult last, and one followed by
\* another component, the last run ending with what NewReject returns
ComponentRuns ==
    LET par == <<222, 173, 190, 239>>
        inv == NewInvoke(0, -1, 71, TRUE, par)
        rrl == NewReturnResult(1, 71, TRUE, TRUE, par)
        rrn == NewReturnResult(1, 71, TRUE, FALSE, par)
        rer == NewReturnError(2, 34, TRUE, par)
    IN  { <<inv, inv, rrl>>, <<rer, PeerReject, inv>>, <<PeerReject, rer>>,
          <<inv, rrl, inv>>, <<rrn, rrl>>, <<rrn>>, <<PeerReject>>,
          <<rrl, NewReject(0, 1, 2, <<>>)>> }

ComponentLists ==
    { <<NewInvoke(0, -1, 71, TRUE, Pattern(n))>> : n \in {128, MaxValueLen} }
        \cup ComponentRuns
        \cup { <<i, r>> : i \in Invokes, r \in ReturnResults }
        \cup { <<r, i>> : i \in Invokes, r \in ReturnResults }
        \cup { <<c>> : c \in Invokes \cup ReturnResults
                              \cup { NewReturnError(0, 34, TRUE, <<4, 1, 0>>),
                                     NewReject(0, 1, 2, <<>>) } }

\* a Component Portion on the wire: an Invoke followed by a ReturnResultLast
ComponentsWire ==
    Components_MarshalBinary(
        NewComponents(<<NewInvoke(0, -1, 71, TRUE, <<4, 1, 0>>),
                        NewReturnResult(1, 71, TRUE, TRUE, <<4, 1, 0>>)>>)).b

\* b whole and cut short, in a buffer with no spare capacity
Cuts(b) == { [bytes |-> SubSeq(b, 1, k), spare |-> <<>>] : k \in 0..Len(b) }

\* the Dialogue Portions NewDialogue is called for in codec_test.go: an AARQ,
\* an AARQ with UserInformation and an AARE, each followed by four bytes
DialogueTrees ==
    { NewDialogue(1, 1, pdu, <<222, 173, 190, 239>>) :
        pdu \in { NewAARQ(1, AnyTimeInfoEnquiryContext, 3, NilIE),
                  NewAARQ(1, AnyTimeInfoEnquiryContext, 3,
                          NewIE(190, <<222, 173, 190, 239>>)),
                  NewAARE(1, AnyTimeInfoEnquiryContext, 3, 0, 1, 0, NilIE) } }

DialogueWires == { Dialogue_MarshalBinary(d).b : d \in DialogueTrees }

\* the Dialogue Portions received: the three whole, the first also cut short
DialogueFeeds ==
    { [bytes |-> b, spare |-> <<>>] : b \in DialogueWires }
        \cup Cuts(Dialogue_MarshalBinary(
                     NewDialogue(1, 1, NewAARQ(1, AnyTimeInfoEnquiryContext, 3, NilIE),
                                 <<222, 173, 190, 239>>)).b)

\* b received with another leading tag octet
Retagged(b, tag) == <<tag>> \o SubSeq(b, 2, Len(b))

\* an Invoke and an AARQ received under a tag whose code names no Component
\* type and no Dialogue PDU type
UnsupportedFeeds ==
    { [bytes |-> Retagged(Component_MarshalBinary(
                              NewInvoke(0, -1, 71, TRUE, <<4, 1, 0>>)).b,
                          NewContextSpecificConstructorTag(code)), spare |-> <<>>] :
          code \in {5, 6} }
    \cup { [bytes |-> Retagged(DialoguePDU_MarshalBinary(
                                   NewAARQ(1, AnyTimeInfoEnquiryContext, 3, NilIE)).b,
                               NewApplicationWideConstructorTag(code)), spare |-> <<>>] :
               code \in {2, 3} }

\* elements whose length is in the long form with two and three length
\* octets
LongHeaderFeeds ==
    { [bytes |-> b, spare |-> <<>>] :
        b \in { <<4, 130, 0, 3, 1, 2, 3>>, <<4, 130, 1, 2, 1, 2>>,
                <<4, 131, 1, 2, 3, 1, 2, 3>>, <<4, 131, 0, 0, 2, 1, 2>> } }

\* AARQ and AARE PDUs whose ApplicationContextName holds the first 0 to 9
\* bytes of a context name, with and without UserInformation behind it
ShortContextPDUs ==
    { DialoguePDU_SetLength(
          [pdu EXCEPT !.ApplicationContextName = MkIE(@.Tag, n, SubSeq(@.Value, 1, n))]) :
        pdu \in UNION { { NewAARQ(1, AnyTimeInfoEnquiryContext, 3, ui),
                          NewAARE(1, AnyTimeInfoEnquiryContext, 3, Accepted,
                                  DialogueServiceUser, Null, ui) } :
                        ui \in {NilIE, NewIE(190, <<1, 2, 3>>)} },
        n \in 0..9 }

ContextNameFeeds ==
    { [bytes |-> DialoguePDU_MarshalBinary(p).b, spare |-> <<>>] : p \in ShortContextPDUs }

Feeds ==
    RawFeeds \cup TransactionFeeds \cup MessageFeeds \cup Cuts(ComponentsWire)
        \cup DialogueFeeds \cup UnsupportedFeeds \cup LongHeaderFeeds
        \cup ContextNameFeeds

Init ==
    /\ op = "init"
    /\ tree = NoTree
    /\ buf \in Feeds
    /\ ret = "nil"
    /\ src = NoTree
    /\ wire = NoWire
    /\ trips = 0
    /\ race = NoRace

\* a run that has received nothing and called nothing yet
Fresh == op = "init" /\ buf = NoBuf

(***************************************************************************)
(* Calls that take no bytes: the constructors, and writeLength on a        *)
(* buffer of six bytes (a tag, the length octet and its four followers).   *)
(***************************************************************************)
Construct(name, kind, val, args) ==
    /\ Fresh
    /\ op' = name
    /\ tree' = Built(kind, val, name, args)
    /\ ret' = "nil"
    /\ UNCHANGED <<buf, src, wire, trips, race>>

DoWriteLength ==
    \E n \in 0..255 :
        \E w \in {writeLength(Zeros(6), n)} :
            /\ Fresh
            /\ op' = "writeLength"
            /\ tree' = NoTree
            /\ buf' = [bytes |-> w.b, spare |-> <<>>]
            /\ ret' = IF w.panic THEN "panic" ELSE "nil"
            /\ src' = Built("length", [length |-> n, offset |-> w.offset],
                            "writeLength", <<n>>)
            /\ UNCHANGED <<wire, trips, race>>

DoNewTag ==
    \E cls \in 0..3, form \in 0..1, code \in 0..31 :
        Construct("NewTag", "Tag", NewTag(cls, form, code), <<cls, form, code>>)

DoNewIE ==
    \E tag \in IETags, n \in ValueLens :
        Construct("NewIE", "IE", NewIE(tag, Pattern(n)), <<tag, n>>)

DoNewUnidirectional ==
    \E payload \in Payloads :
        Construct("NewUnidirectional", "Transaction", NewUnidirectional(payload),
                  <<payload>>)

DoNewBegin ==
    \E otid \in TransactionIDs, payload \in Payloads :
        Construct("NewBegin", "Transaction", NewBegin(otid, payload), <<otid, payload>>)

DoNewEnd ==
    \E otid \in TransactionIDs, payload \in Payloads :
        Construct("NewEnd", "Transaction", NewEnd(otid, payload), <<otid, payload>>)

DoNewContinue ==
    \E otid \in TransactionIDs, dtid \in TransactionIDs, payload \in Payloads :
        Construct("NewContinue", "Transaction", NewContinue(otid, dtid, payload),
                  <<otid, dtid, payload>>)

DoNewAbort ==
    \E dtid \in TransactionIDs, cause \in {0, 1}, payload \in Payloads :
        Construct("NewAbort", "Transaction", NewAbort(dtid, cause, payload),
                  <<dtid, cause, payload>>)

Contexts == {AnyTimeInfoEnquiryContext, NetworkUnstructuredSsContext}

DoNewBeginInvoke ==
    \E otid \in TransactionIDs, invID \in {0, 1}, payload \in Payloads :
        Construct("NewBeginInvoke", "TCAP", NewBeginInvoke(otid, invID, 71, payload),
                  <<otid, invID, 71, payload>>)

DoNewBeginInvokeWithDialogue ==
    \E otid \in TransactionIDs, ctx \in Contexts, invID \in {0, 1}, payload \in Payloads :
        Construct("NewBeginInvokeWithDialogue", "TCAP",
                  NewBeginInvokeWithDialogue(otid, DialogueAsID, ctx, 3, invID, 71, payload),
                  <<otid, DialogueAsID, ctx, 3, invID, 71, payload>>)

\* the Parameter of the Continue of codec_test.go: three BER elements
BERParameter ==
    <<4, 1, 15, 4, 9, 170, 27, 46, 71, 171, 217, 70, 170, 17,
      128, 7, 145, 24, 8, 17, 17, 34, 34>>

\* the arguments of NewContinueInvoke, those of codec_test.go among them
ContinueInvokes ==
    { <<otid, dtid, invID, 71, payload>> :
          otid \in TransactionIDs, dtid \in TransactionIDs, invID \in {0, 1},
          payload \in Payloads \cup {BERParameter} }
    \cup { <<286331153, 572662306, 1, 61, BERParameter>> }

DoNewContinueInvoke ==
    \E a \in ContinueInvokes :
        Construct("NewContinueInvoke", "TCAP",
                  NewContinueInvoke(a[1], a[2], a[3], a[4], a[5]), a)

DoNewEndReturnResult ==
    \E dtid \in TransactionIDs, invID \in {0, 1}, isLast \in BOOLEAN,
       payload \in Payloads :
        Construct("NewEndReturnResult", "TCAP",
                  NewEndReturnResult(dtid, invID, 71, isLast, payload),
                  <<dtid, invID, 71, isLast, payload>>)

DoNewEndReturnResultWithDialogue ==
    \E dtid \in TransactionIDs, ctx \in Contexts, invID \in {0, 1}, isLast \in BOOLEAN,
       payload \in Payloads :
        Construct("NewEndReturnResultWithDialogue", "TCAP",
                  NewEndReturnResultWithDialogue(dtid, DialogueAsID, ctx, 3, invID, 71,
                                                 isLast, payload),
                  <<dtid, DialogueAsID, ctx, 3, invID, 71, isLast, payload>>)

DoNewComponents ==
    \E comps \in ComponentLists :
        Construct("NewComponents", "Components", NewComponents(comps),
                  [k \in 1..Len(comps) |-> TagCode(comps[k].Type)])

\* the user information handed to NewAARQ, NewAARE and NewABRT: none, or an
\* IE whose value has one of the lengths of ValueLens
UserInfos == {NilIE} \cup { NewIE(190, Pattern(n)) : n \in ValueLens }

DoNewInvoke ==
    \E lkID \in {-1, 1}, n \in ValueLens :
        Construct("NewInvoke", "Component", NewInvoke(0, lkID, 71, TRUE, Pattern(n)),
                  <<0, lkID, 71, TRUE, n>>)

DoNewReturnResult ==
    \E isLast \in BOOLEAN, n \in ValueLens :
        Construct("NewReturnResult", "Component",
                  NewReturnResult(1, 71, TRUE, isLast, Pattern(n)),
                  <<1, 71, TRUE, isLast, n>>)

DoNewReturnError ==
    \E isLocal \in BOOLEAN, n \in ValueLens :
        Construct("NewReturnError", "Component",
                  NewReturnError(0, 34, isLocal, Pattern(n)), <<0, 34, isLocal, n>>)

DoNewReject ==
    \E problemType \in 0..3, n \in ValueLens :
        Construct("NewReject", "Component", NewReject(0, problemType, 2, Pattern(n)),
                  <<0, problemType, 2, n>>)

DoNewAARQ ==
    \E ctx \in Contexts, userinfo \in UserInfos :
        Construct("NewAARQ", "DialoguePDU", NewAARQ(1, ctx, 3, userinfo),
                  <<1, ctx, 3, Len(userinfo.Value)>>)

DoNewAARE ==
    \E ctx \in Contexts, userinfo \in UserInfos :
        Construct("NewAARE", "DialoguePDU",
                  NewAARE(1, ctx, 3, Accepted, DialogueServiceUser, Null, userinfo),
                  <<1, ctx, 3, Len(userinfo.Value)>>)

DoNewABRT ==
    \E abortsrc \in {0, 1}, userinfo \in UserInfos :
        Construct("NewABRT", "DialoguePDU", NewABRT(abortsrc, userinfo),
                  <<abortsrc, Len(userinfo.Value)>>)

\* Dialogue Portions with user information and a payload of up to 255 bytes
LongDialogues ==
    { NewDialogue(1, 1, NewAARQ(1, AnyTimeInfoEnquiryContext, 3, NewIE(190, Pattern(n))),
                  Pattern(m)) : n \in {0, 128, MaxValueLen}, m \in {0, 128, MaxValueLen} }

DoNewDialogue ==
    \E d \in DialogueTrees \cup LongDialogues :
        Construct("NewDialogue", "Dialogue", d,
                  <<TagCode(d.DialoguePDU.Type), Len(d.Payload)>>)

(***************************************************************************)
(* tcap_test.go: the messages TestParse generates.  The parameter is an    *)
(* OCTET STRING 0x0f followed by an OCTET STRING holding the text.         *)
(***************************************************************************)
\* the 140 bytes of a 160-character text in the GSM 7-bit alphabet
UssdGsm7Text ==
    << 84, 116, 216, 189, 6, 229, 223, 117, 144, 249, 45, 7, 213, 231, 105, 247,
       25, 68, 71, 151, 65, 199, 55, 59, 236, 62, 131, 170, 211, 41, 17, 52, 47,
       203, 237, 101, 185, 11, 148, 166, 131, 210, 115, 16, 185, 108, 47, 179,
       223, 240, 50, 25, 4, 175, 203, 203, 236, 60, 232, 237, 6, 157, 223, 236,
       176, 251, 12, 10, 187, 201, 160, 52, 29, 84, 159, 151, 231, 160, 233, 112,
       8, 101, 129, 154, 179, 106, 144, 5, 154, 14, 169, 80, 22, 40, 56, 117, 178,
       64, 67, 225, 148, 5, 58, 78, 155, 55, 80, 216, 77, 6, 37, 169, 85, 208,
       156, 30, 118, 147, 195, 114, 242, 220, 5, 66, 190, 225, 101, 80, 254, 93,
       7, 149, 221, 234, 119, 30, 68, 71, 187, 241 >>

\* RandStringBytes(n): n letters; the runs take one letter n times
RandStringBytes(n, letter) == [k \in 1..n |-> letter]

\* the TCAP that GenerateNewEndReturnResultWithDialogueWithMessage builds
GeneratedSample(dtid, message) ==
    NewEndReturnResultWithDialogue(
        dtid, AARE, NetworkUnstructuredSsContext, 2, 0, 59, TRUE,
        IE_MarshalBinary(NewIE(4, <<15>>)).b \o IE_MarshalBinary(NewIE(4, message)).b)

\* the texts of the generated messages: 60 and 90 letters, and the GSM text
GeneratedTexts ==
    { RandStringBytes(n, letter) : n \in {60, 90}, letter \in {97, 90} }
        \cup {UssdGsm7Text}

\* rand.Intn(len(letterBytes)): the ends of 0..51
GeneratedIDs == {0, 51}

DoGenerateNewEndReturnResultWithDialogue ==
    \E dtid \in GeneratedIDs, message \in GeneratedTexts :
        \E sample \in {GeneratedSample(dtid, message)} :
            \E r \in {TCAP_MarshalBinary(sample)} :
                /\ Fresh
                /\ trips < MaxTrips
                /\ op' = "GenerateNewEndReturnResultWithDialogue"
                /\ tree' = Built("TCAP", sample, "GenerateNewEndReturnResultWithDialogue",
                                 <<dtid, message>>)
                /\ buf' = [bytes |-> r.b, spare |-> <<>>]
                /\ ret' = r.err
                /\ src' = Built("TCAP", sample, "GenerateNewEndReturnResultWithDialogue",
                                <<dtid, message>>)
                /\ trips' = trips + 1
                /\ UNCHANGED <<wire, race>>

(***************************************************************************)
(* SetLength on the TCAP held, built by a constructor or returned by Parse. *)
(***************************************************************************)
DoTCAPSetLength ==
    /\ tree.kind = "TCAP"
    /\ op' = "TCAP.SetLength"
    /\ tree' = [tree EXCEPT !.val = TCAP_SetLength(tree.val)]
    /\ ret' = "nil"
    /\ UNCHANGED <<buf, src, wire, trips, race>>

(***************************************************************************)
(* MarshalBinary of the value held: the caller now holds the bytes.        *)
(***************************************************************************)
Marshal(name, kind, r) ==
    /\ tree.kind = kind
    /\ trips < MaxTrips
    /\ op' = name
    /\ buf' = [bytes |-> r.b, spare |-> <<>>]
    /\ ret' = r.err
    /\ src' = tree
    /\ trips' = trips + 1
    /\ UNCHANGED <<tree, wire, race>>

DoIEMarshalBinary ==
    /\ tree.kind = "IE"
    /\ Marshal("IE.MarshalBinary", "IE", IE_MarshalBinary(tree.val))

DoTransactionMarshalBinary ==
    /\ tree.kind = "Transaction"
    /\ Marshal("Transaction.MarshalBinary", "Transaction",
               Transaction_MarshalBinary(tree.val))

DoTCAPMarshalBinary ==
    /\ tree.kind = "TCAP"
    /\ Marshal("TCAP.MarshalBinary", "TCAP", TCAP_MarshalBinary(tree.val))

DoComponentsMarshalBinary ==
    /\ tree.kind = "Components"
    /\ Marshal("Components.MarshalBinary", "Components",
               Components_MarshalBinary(tree.val))

DoDialogueMarshalBinary ==
    /\ tree.kind = "Dialogue"
    /\ Marshal("Dialogue.MarshalBinary", "Dialogue", Dialogue_MarshalBinary(tree.val))

DoComponentMarshalBinary ==
    /\ tree.kind = "Component"
    /\ Marshal("Component.MarshalBinary", "Component", Component_MarshalBinary(tree.val))

DoDialoguePDUMarshalBinary ==
    /\ tree.kind = "DialoguePDU"
    /\ Marshal("DialoguePDU.MarshalBinary", "DialoguePDU",
               DialoguePDU_MarshalBinary(tree.val))

(***************************************************************************)
(* MarshalTo of the value held into a buffer the caller made: make([]byte, *)
(* k), whose capacity is its length.                                       *)
(***************************************************************************)
\* the buffer lengths tried for a value whose MarshalLen() is ml
BufferLens(ml) == {0, 1, 2, 3, ml - 1, ml} \cap 0..ml

\* x.MarshalTo(b), b := make([]byte, k): the caller holds b when the call
\* returns, and nothing when it panics
MarshalInto(name, kind, k, r) ==
    /\ tree.kind = kind
    /\ trips < MaxTrips
    /\ op' = name
    /\ buf' = IF r.err = "panic" THEN NoBuf ELSE [bytes |-> r.b, spare |-> <<>>]
    /\ ret' = r.err
    /\ src' = [tree EXCEPT !.args = <<k>>]
    /\ trips' = trips + 1
    /\ UNCHANGED <<tree, wire, race>>

DoIEMarshalTo ==
    /\ tree.kind = "IE"
    /\ \E k \in BufferLens(IE_MarshalLen(tree.val)) :
           MarshalInto("IE.MarshalTo", "IE", k, IE_MarshalTo(tree.val, Zeros(k)))

DoTransactionMarshalTo ==
    /\ tree.kind = "Transaction"
    /\ \E k \in BufferLens(Transaction_MarshalLen(tree.val)) :
           MarshalInto("Transaction.MarshalTo", "Transaction", k,
                       Transaction_MarshalTo(tree.val, Zeros(k)))

DoDialogueMarshalTo ==
    /\ tree.kind = "Dialogue"
    /\ \E k \in BufferLens(Dialogue_MarshalLen(tree.val)) :
           MarshalInto("Dialogue.MarshalTo", "Dialogue", k,
                       Dialogue_MarshalTo(tree.val, Zeros(k)))

(***************************************************************************)
(* Decoding the bytes held.                                                *)
(***************************************************************************)
Decode(name, kind, err, val) ==
    /\ ~wire.set
    /\ op' = name
    /\ tree' = IF err = "nil" THEN Decoded(kind, val, name) ELSE NoTree
    /\ ret' = err
    /\ wire' = [set |-> TRUE, bytes |-> buf.bytes]
    /\ UNCHANGED <<buf, src, trips, race>>

\* readLength(b): b[1:] panics on an empty b
DoReadLength ==
    IF Len(buf.bytes) = 0
    THEN Decode("readLength", "length", "panic", <<>>)
    ELSE Decode("readLength", "length", "nil", readLength(buf.bytes))

DoParseIE ==
    \E r \in {ParseIE(buf.bytes)} :
        Decode("ParseIE", "IE", r.err, r.ie)

DoParseIERecursive ==
    /\ Len(buf.bytes) <= MaxNestedLen
    /\ \E r \in {ParseIERecursive(buf.bytes)} :
           Decode("ParseIERecursive", "IE", r.err, r.ie)

DoParseMultiIEs ==
    \E r \in {ParseMultiIEs(buf.bytes)} :
        Decode("ParseMultiIEs", "IEs", r.err, r.ies)

DoParseAsBER ==
    /\ Len(buf.bytes) <= MaxNestedLen
    /\ \E r \in {ParseAsBER(buf.bytes)} :
           Decode("ParseAsBER", "IEs", r.err, r.ies)

DoParseTransaction ==
    \E r \in {ParseTransaction(buf.bytes, buf.spare)} :
        Decode("ParseTransaction", "Transaction", r.err, r.t)

DoParse ==
    \E r \in {Parse(buf.bytes, buf.spare)} :
        Decode("Parse", "TCAP", r.err, r.t)

\* ParseBER(b) for the messages of at most MaxBERLen bytes
DoParseBER ==
    /\ Len(buf.bytes) <= MaxBERLen
    /\ \E r \in {ParseBER(buf.bytes)} :
           Decode("ParseBER", "TCAPs", r.err, r.tcaps)

DoParseDialogue ==
    \E r \in {ParseDialogue(buf.bytes)} :
        Decode("ParseDialogue", "Dialogue", r.err, r.d)

DoParseComponents ==
    \E r \in {ParseComponents(buf.bytes)} :
        Decode("ParseComponents", "Components", r.err, r.c)

DoParseComponent ==
    \E r \in {ParseComponent(buf.bytes)} :
        Decode("ParseComponent", "Component", r.err, r.c)

DoParseDialoguePDU ==
    \E r \in {ParseDialoguePDU(buf.bytes)} :
        Decode("ParseDialoguePDU", "DialoguePDU", r.err, r.d)

Next ==
    \/ DoWriteLength
    \/ DoNewTag
    \/ DoNewIE
    \/ DoNewUnidirectional
    \/ DoNewBegin
    \/ DoNewEnd
    \/ DoNewContinue
    \/ DoNewAbort
    \/ DoNewBeginInvoke
    \/ DoNewBeginInvokeWithDialogue
    \/ DoNewContinueInvoke
    \/ DoNewEndReturnResult
    \/ DoNewEndReturnResultWithDialogue
    \/ DoNewInvoke
    \/ DoNewReturnResult
    \/ DoNewReturnError
    \/ DoNewReject
    \/ DoNewComponents
    \/ DoNewAARQ
    \/ DoNewAARE
    \/ DoNewABRT
    \/ DoNewDialogue
    \/ DoGenerateNewEndReturnResultWithDialogue
    \/ DoTCAPSetLength
    \/ DoIEMarshalBinary
    \/ DoTransactionMarshalBinary
    \/ DoTCAPMarshalBinary
    \/ DoComponentsMarshalBinary
    \/ DoDialogueMarshalBinary
    \/ DoComponentMarshalBinary
    \/ DoDialoguePDUMarshalBinary
    \/ DoIEMarshalTo
    \/ DoTransactionMarshalTo
    \/ DoDialogueMarshalTo
    \/ DoReadLength
    \/ DoParseIE
    \/ DoParseIERecursive
    \/ DoParseMultiIEs
    \/ DoParseAsBER
    \/ DoParseTransaction
    \/ DoParse
    \/ DoParseBER
    \/ DoParseDialogue
    \/ DoParseComponents
    \/ DoParseComponent
    \/ DoParseDialoguePDU

Spec == Init /\ [][Next]_vars

(***************************************************************************)
(* Two threads sharing one tree: one in TCAP.SetLength, one in             *)
(* TCAP.MarshalBinary.  Nothing in the package locks the tree, so the      *)
(* writes of the one and the reads of the other interleave.  A step of the *)
(* finalizer is one statement of TCAP.SetLength or one turn of the loop of *)
(* Components.SetLength; a step of the encoder is the make of the buffer   *)
(* or the MarshalTo of one portion.                                        *)
(***************************************************************************)
\* trees as a caller composes them from portions, before SetLength
ComposedTrees ==
    { [nil |-> FALSE, Transaction |-> NewContinue(1, 1, <<>>), Dialogue |-> NilDialogue,
       Components |-> NewComponents(comps)] :
          comps \in { <<NewInvoke(0, -1, 71, TRUE, <<>>)>>,
                      <<NewInvoke(0, -1, 71, TRUE, <<222, 173, 190, 239>>)>>,
                      <<NewInvoke(0, -1, 71, TRUE, <<4, 1, 0>>),
                        NewReturnResult(1, 71, TRUE, TRUE, <<4, 1, 0>>)>> } }
    \cup { [nil |-> FALSE, Transaction |-> NewBegin(1, <<>>), Dialogue |-> d,
            Components |-> NewComponents(<<NewInvoke(0, -1, 71, TRUE, <<4, 1, 0>>)>>)] :
               d \in DialogueTrees }
    \cup { [nil |-> FALSE, Transaction |-> NewContinue(1, 1, <<>>),
            Dialogue |-> NilDialogue, Components |-> NilComponents] }

\* the trees shared: composed, or finalized already
SharedTrees == ComposedTrees \cup { TCAP_SetLength(t) : t \in ComposedTrees }

RaceInit ==
    /\ op = "init"
    /\ \E t \in SharedTrees :
           /\ tree = Built("TCAP", t, "composed", <<>>)
           /\ src = Built("TCAP", t, "composed", <<>>)
    /\ buf = NoBuf
    /\ ret = "nil"
    /\ wire = NoWire
    /\ trips = 0
    /\ race = [fin |-> [pc |-> "Components", i |-> 0],
               enc |-> [pc |-> "make", acc |-> NoAcc, serial |-> FALSE]]

\* a variant of ComponentsResetLength that leaves the length as it was
ComponentsResetLength_Keep(c) == c

\* c.Length = 0
ComponentsResetLength(c) == [c EXCEPT !.Length = 0]

\* one turn of the loop of Components.SetLength, on the i-th component:
\* comp.SetLength(); c.Length += uint8(comp.MarshalLen())
ComponentsSetLengthTurn(c, i) ==
    Let(Component_SetLength(c.Component[i]), LAMBDA comp :
        [c EXCEPT !.Component[i] = comp,
                  !.Length = U8(c.Length + U8(Component_MarshalLen(comp)))])

\* a step of the finalizer: the tree and its position become t and fin
FinStep(name, t, fin) ==
    /\ op' = name
    /\ tree' = [tree EXCEPT !.val = t]
    /\ race' = [race EXCEPT !.fin = fin]
    /\ UNCHANGED <<buf, ret, src, wire, trips>>

\* TCAP.SetLength enters Components.SetLength, which resets the length
FinComponentsReset ==
    /\ race.fin.pc = "Components"
    /\ IF tree.val.Components.nil
       THEN FinStep("TCAP.SetLength", tree.val, [pc |-> "Dialogue", i |-> 0])
       ELSE FinStep("Components.SetLength",
                    [tree.val EXCEPT !.Components = ComponentsResetLength(@)],
                    IF Len(tree.val.Components.Component) = 0
                    THEN [pc |-> "Dialogue", i |-> 0]
                    ELSE [pc |-> "ComponentsLoop", i |-> 1])

FinComponentsTurn ==
    /\ race.fin.pc = "ComponentsLoop"
    /\ FinStep("Components.SetLength",
               [tree.val EXCEPT !.Components = ComponentsSetLengthTurn(@, race.fin.i)],
               IF race.fin.i = Len(tree.val.Components.Component)
               THEN [pc |-> "Dialogue", i |-> 0]
               ELSE [pc |-> "ComponentsLoop", i |-> race.fin.i + 1])

FinDialogue ==
    /\ race.fin.pc = "Dialogue"
    /\ FinStep("Dialogue.SetLength",
               [tree.val EXCEPT !.Dialogue = IF @.nil THEN @ ELSE Dialogue_SetLength(@)],
               [pc |-> IF tree.val.Transaction.nil THEN "done" ELSE "Transaction",
                i |-> 0])

FinTransaction ==
    /\ race.fin.pc = "Transaction"
    /\ FinStep("Transaction.SetLength",
               [tree.val EXCEPT !.Transaction = Transaction_SetLength(@)],
               [pc |-> "AddComponents", i |-> 0])

\* portion.Length += uint8(c.MarshalLen())
FinAddComponents ==
    /\ race.fin.pc = "AddComponents"
    /\ FinStep("TCAP.SetLength",
               IF tree.val.Components.nil THEN tree.val
               ELSE [tree.val EXCEPT !.Transaction.Length =
                        U8(@ + U8(Components_MarshalLen(tree.val.Components)))],
               [pc |-> "AddDialogue", i |-> 0])

\* portion.Length += uint8(d.MarshalLen())
FinAddDialogue ==
    /\ race.fin.pc = "AddDialogue"
    /\ FinStep("TCAP.SetLength",
               IF tree.val.Dialogue.nil THEN tree.val
               ELSE [tree.val EXCEPT !.Transaction.Length =
                        U8(@ + U8(Dialogue_MarshalLen(tree.val.Dialogue)))],
               [pc |-> "done", i |-> 0])

\* a step of the encoder that leaves it within MarshalTo
EncStep(pc, acc) ==
    /\ race' = [race EXCEPT !.enc.pc = pc, !.enc.acc = acc]
    /\ UNCHANGED <<op, tree, buf, ret, src, wire, trips>>

\* b := make([]byte, t.MarshalLen()); serial tells that SetLength had
\* returned before MarshalBinary was called
EncMake ==
    /\ race.enc.pc = "make"
    /\ race' = [race EXCEPT !.enc =
                   [pc |-> "Transaction",
                    acc |-> [err |-> "nil", b |-> Zeros(TCAP_MarshalLen(tree.val)),
                             offset |-> 0],
                    serial |-> race.fin.pc = "done"]]
    /\ UNCHANGED <<op, tree, buf, ret, src, wire, trips>>

EncTransaction ==
    /\ race.enc.pc = "Transaction"
    /\ EncStep("Dialogue", MarshalTransaction(race.enc.acc, tree.val.Transaction))

EncDialogue ==
    /\ race.enc.pc = "Dialogue"
    /\ EncStep("Components", MarshalDialogue(race.enc.acc, tree.val.Dialogue))

\* the last portion, and the return of MarshalBinary
EncComponents ==
    /\ race.enc.pc = "Components"
    /\ \E acc \in {MarshalComponents(race.enc.acc, tree.val.Components)} :
           /\ race' = [race EXCEPT !.enc.pc = "done", !.enc.acc = acc]
           /\ op' = "TCAP.MarshalBinary"
           /\ buf' = [bytes |-> IF acc.err = "nil" THEN acc.b ELSE <<>>, spare |-> <<>>]
           /\ ret' = acc.err
           /\ UNCHANGED <<tree, src, wire, trips>>

RaceNext ==
    \/ FinComponentsReset
    \/ FinComponentsTurn
    \/ FinDialogue
    \/ FinTransaction
    \/ FinAddComponents
    \/ FinAddDialogue
    \/ EncMake
    \/ EncTransaction
    \/ EncDialogue
    \/ EncComponents

RaceSpec == RaceInit /\ [][RaceNext]_vars

(***************************************************************************)
(* The properties checked.                                                 *)
(***************************************************************************)
\* the call NewBeginInvokeWithDialogue(0x11111111, DialogueAsID,
\* AnyTimeInfoEnquiryContext, 3, 0, 71, [de ad be ef]) of codec_test.go
ScenarioAArgs ==
    <<286331153, DialogueAsID, AnyTimeInfoEnquiryContext, 3, 0, 71, <<222, 173, 190, 239>>>>

\* a transaction id as a caller reads it: whether it is set, and its bytes
IDOf(field) == [set |-> ~field.nil, bytes |-> field.Value]

\* a and b have the same transaction type and ids, the same Dialogue PDU
\* and the same list of components
SameMessage(a, b) ==
    /\ a.Transaction.Type = b.Transaction.Type
    /\ IDOf(a.Transaction.OrigTransactionID) = IDOf(b.Transaction.OrigTransactionID)
    /\ IDOf(a.Transaction.DestTransactionID) = IDOf(b.Transaction.DestTransactionID)
    /\ a.Dialogue.nil = b.Dialogue.nil
    /\ a.Dialogue.DialoguePDU = b.Dialogue.DialoguePDU
    /\ a.Components.nil = b.Components.nil
    /\ a.Components.Component = b.Components.Component

\* the messages a sender marshals: those of the constructors
WellFormed(b) == b \in MessageWires \cup {ScenarioA}

\* C1: a message built by one of the five TCAP constructors, marshalled and
\* parsed, parses without error into a TCAP with the same transaction type,
\* transaction ids, Dialogue PDU and component list; and a well-formed byte
\* sequence that Parse accepts marshals back to the same bytes.
C1_RoundTrip ==
    /\ (op = "Parse" /\ src.kind = "TCAP" /\ ~src.parsed) =>
           (ret = "nil" /\ SameMessage(tree.val, src.val))
    /\ (op = "TCAP.MarshalBinary" /\ src.kind = "TCAP" /\ src.parsed
            /\ WellFormed(wire.bytes)) =>
           (ret = "nil" /\ buf.bytes = wire.bytes)

\* C2: MarshalBinary of the Scenario A message returns exactly the 56 bytes
\* of Scenario A without error, and MarshalLen of the message is 56.
C2_ScenarioAEncodes ==
    (op = "TCAP.MarshalBinary" /\ src.from = "NewBeginInvokeWithDialogue"
        /\ src.args = ScenarioAArgs) =>
        /\ ret = "nil"
        /\ buf.bytes = ScenarioA
        /\ Len(buf.bytes) = 56
        /\ TCAP_MarshalLen(src.val) = 56

\* the Scenario A message has been built and marshalled
C2_Witness ==
    /\ op = "TCAP.MarshalBinary"
    /\ src.from = "NewBeginInvokeWithDialogue"
    /\ src.args = ScenarioAArgs
    /\ Len(buf.bytes) = 56

\* C3: Parse of the 56 bytes of Scenario A returns no error and a TCAP whose
\* AppContextName is "anyTimeInfoEnquiryContext", whose OTID is 0x11111111
\* and whose ComponentType is ["invoke"].
C3_ScenarioADecodes ==
    (op = "Parse" /\ wire.bytes = ScenarioA) =>
        /\ ret = "nil"
        /\ TCAP_AppContextName(tree.val) = "anyTimeInfoEnquiryContext"
        /\ TCAP_OTID(tree.val) = [panic |-> FALSE, v |-> 286331153]
        /\ TCAP_ComponentType(tree.val) = <<"invoke">>

\* C4: Parse accepts no input whose Transaction length octet differs from
\* the Transaction length that SetLength computes from the decoded portions:
\* whatever the path taken, a TCAP that Parse returns has the length octet
\* of its input.
C4_LengthChecked ==
    (op = "Parse" /\ ret = "nil") =>
        TCAP_SetLength(tree.val).Transaction.Length = wire.bytes[2]

\* the optional fields of a Transaction that are set
PresentFields(t) ==
    (IF t.OrigTransactionID.nil THEN {} ELSE {"OrigTransactionID"})
    \cup (IF t.DestTransactionID.nil THEN {} ELSE {"DestTransactionID"})
    \cup (IF t.PAbortCause.nil THEN {} ELSE {"PAbortCause"})

\* the optional fields each of the five types carries
MandatedFields(code) ==
    IF code = Begin THEN {"OrigTransactionID"}
    ELSE IF code = End THEN {"DestTransactionID"}
    ELSE IF code = Continue THEN {"OrigTransactionID", "DestTransactionID"}
    ELSE IF code = Abort THEN {"DestTransactionID", "PAbortCause"}
    ELSE {}

\* the type each factory builds
FactoryType ==
    [NewUnidirectional |-> Unidirectional, NewBegin |-> Begin, NewEnd |-> End,
     NewContinue |-> Continue, NewAbort |-> Abort]

\* C5: a Transaction that a factory builds has the factory's type and
\* exactly the optional fields of that type, and a Transaction of one of the
\* five types that ParseTransaction returns has exactly the optional fields
\* of its type: Begin the originating id; End the destination id; Continue
\* both ids; Abort the destination id and the P-Abort cause; Unidirectional
\* none.
C5_Presence ==
    /\ op \in DOMAIN FactoryType =>
           /\ tree.kind = "Transaction"
           /\ TagCode(tree.val.Type) = FactoryType[op]
           /\ PresentFields(tree.val) = MandatedFields(FactoryType[op])
    /\ (op = "ParseTransaction" /\ ret = "nil"
            /\ TagCode(tree.val.Type) \in {Unidirectional, Begin, End, Continue, Abort}) =>
           PresentFields(tree.val) = MandatedFields(TagCode(tree.val.Type))

\* ParseTransaction has returned an Abort with its two fields
C5_Witness ==
    /\ op = "ParseTransaction"
    /\ ret = "nil"
    /\ TagCode(tree.val.Type) = Abort
    /\ PresentFields(tree.val) = {"DestTransactionID", "PAbortCause"}

\* b cannot hold the header and the fixed-width fields of its type: two
\* bytes, six more for each transaction id, three more for the cause
TooShort(b) ==
    \/ Len(b) < 2
    \/ TagCode(b[1]) \in {Begin, End} /\ Len(b) < 8
    \/ TagCode(b[1]) = Continue /\ Len(b) < 14
    \/ TagCode(b[1]) = Abort /\ Len(b) < 11

\* C6: on an input too short for the header or for a fixed-width field of
\* its type, ParseTransaction returns the truncated-input error and no
\* Transaction; it does not panic.
C6_ShortInput ==
    (op = "ParseTransaction" /\ TooShort(wire.bytes)) =>
        (ret = "ErrUnexpectedEOF" /\ tree.kind = "nil")

\* b is cut short at the first IE: fewer than two bytes, or a declared
\* length larger than what follows the header
TruncatedIE(b) ==
    \/ Len(b) < 2
    \/ Let(readLength(b), LAMBDA rl : rl.length > Len(b) - rl.offset)

\* the same at some step of a sequence of IEs, each step advancing by the
\* header and the declared length
RECURSIVE TruncatedSequence(_)
TruncatedSequence(b) ==
    IF Len(b) = 0 THEN FALSE
    ELSE IF TruncatedIE(b) THEN TRUE
    ELSE Let(readLength(b), LAMBDA rl : TruncatedSequence(From(b, rl.offset + rl.length)))

\* C7: ParseIE, ParseIERecursive, ParseMultiIEs and ParseAsBER return the
\* truncation error and no IE when the buffer, or for the two sequence
\* parsers the remainder at some step, has fewer than two bytes or declares
\* a length larger than the bytes that follow the header.
C7_Truncation ==
    /\ (op \in {"ParseIE", "ParseIERecursive"} /\ TruncatedIE(wire.bytes)) =>
           (ret = "ErrUnexpectedEOF" /\ tree.kind = "nil")
    /\ (op \in {"ParseMultiIEs", "ParseAsBER"} /\ TruncatedSequence(wire.bytes)) =>
           (ret = "ErrUnexpectedEOF" /\ tree.kind = "nil")

\* C8: for n in 0..255, readLength on the header that writeLength(n) wrote
\* returns the length n, and the header size it returns is the offset that
\* writeLength returned.
C8_LengthSymmetric ==
    (op = "readLength" /\ src.from = "writeLength") =>
        /\ ret = "nil"
        /\ tree.val.length = src.val.length
        /\ tree.val.offset = src.val.offset

\* C9: for an IE built by NewIE with a value of at most 255 bytes,
\* MarshalBinary returns MarshalLen() bytes, and readLength on them returns
\* as length the number of bytes that follow the header.
C9_HeaderCountsValue ==
    (op = "readLength" /\ src.from = "NewIE" /\ Len(src.val.Value) <= 255) =>
        /\ ret = "nil"
        /\ Len(buf.bytes) = IE_MarshalLen(src.val)
        /\ tree.val.length = Len(buf.bytes) - tree.val.offset

\* C10: for an IE built by NewIE with a value of at most 255 bytes, ParseIE
\* of its MarshalBinary returns no error and an IE with the same Tag, Length
\* and Value.
C10_IERoundTrip ==
    (op = "ParseIE" /\ src.from = "NewIE" /\ Len(src.val.Value) <= 255) =>
        /\ ret = "nil"
        /\ tree.val.Tag = src.val.Tag
        /\ tree.val.Length = src.val.Length
        /\ tree.val.Value = src.val.Value

(***************************************************************************)
(* States in which the code departs from C1, C3, C4 and C6..C10.           *)
(***************************************************************************)
\* a message built by NewBeginInvokeWithDialogue and marshalled makes Parse panic
C1_Failure ==
    op = "Parse" /\ src.from = "NewBeginInvokeWithDialogue" /\ ret = "panic"

\* Parse of the 56 bytes of Scenario A panics
C3_Failure ==
    op = "Parse" /\ wire.bytes = ScenarioA /\ ret = "panic"

\* Parse accepts a Begin whose length octet is not the recomputed length
C4_Failure ==
    /\ op = "Parse" /\ ret = "nil"
    /\ TagCode(tree.val.Transaction.Type) = Begin
    /\ TCAP_SetLength(tree.val).Transaction.Length # wire.bytes[2]

\* ParseTransaction panics on a Begin cut inside its OrigTransactionID
C6_Failure ==
    /\ op = "ParseTransaction" /\ ret = "panic"
    /\ Len(wire.bytes) \in 2..7 /\ wire.bytes[1] = 98

\* ParseIERecursive returns an IE for bytes shorter than their length octet says
C7_Failure ==
    op = "ParseIERecursive" /\ TruncatedIE(wire.bytes) /\ ret = "nil"

\* readLength returns 127 for the header writeLength wrote for 128
C8_Failure ==
    /\ op = "readLength" /\ src.from = "writeLength"
    /\ src.val.length = 128 /\ tree.val.length = 127

\* the header of an IE of 128 value bytes decodes to 127
C9_Failure ==
    /\ op = "readLength" /\ src.from = "NewIE"
    /\ Len(src.val.Value) = 128 /\ tree.val.length = 127

\* ParseIE rejects the two bytes of an IE with an empty value
C10_Failure ==
    /\ op = "ParseIE" /\ src.from = "NewIE"
    /\ Len(src.val.Value) = 0 /\ ret = "ErrUnexpectedEOF"

(***************************************************************************)
(* The messages of tcap_test.go.                                           *)
(***************************************************************************)
\* C11: a message generated by NewEndReturnResultWithDialogue with the
\* context NetworkUnstructuredSsContext and a parameter holding a text of 60,
\* 90 or 140 bytes, once marshalled, is parsed by Parse with no error, and
\* the Context() of the parsed Dialogue is "networkUnstructuredSsContext".
C11_GeneratedParses ==
    (op = "Parse" /\ src.from = "GenerateNewEndReturnResultWithDialogue") =>
        /\ ret = "nil"
        /\ Dialogue_Context(tree.val.Dialogue) = "networkUnstructuredSsContext"

\* Parse panics on the generated message whose text has 140 bytes
C11_Failure ==
    /\ op = "Parse" /\ src.from = "GenerateNewEndReturnResultWithDialogue"
    /\ src.args[2] = UssdGsm7Text
    /\ ret = "panic"

\* Parse panics on the generated messages whose text has 60 or 90 bytes
C11_FailureShort ==
    /\ op = "Parse" /\ src.from = "GenerateNewEndReturnResultWithDialogue"
    /\ Len(src.args[2]) \in {60, 90}
    /\ ret = "panic"

\* C12: Parse of the Begin whose Transaction length is in the long form
\* (0x62 0x81 0xf2) returns no error and a Dialogue whose Context() is
\* "networkUnstructuredSsContext", as it does for the short-form request.
C12_LongFormBegin ==
    (op = "Parse" /\ wire.bytes \in {UssdRequestLong, UssdRequestShort}) =>
        /\ ret = "nil"
        /\ Dialogue_Context(tree.val.Dialogue) = "networkUnstructuredSsContext"

\* Parse panics on the long-form request
C12_Failure ==
    op = "Parse" /\ wire.bytes = UssdRequestLong /\ ret = "panic"

\* Parse panics on the short-form request
C12_FailureShort ==
    op = "Parse" /\ wire.bytes = UssdRequestShort /\ ret = "panic"

(***************************************************************************)
(* The Component Portion.                                                  *)
(***************************************************************************)
\* what a caller reads of a component: its type and the bytes of its
\* InvokeID, OperationCode and Parameter
ComponentView(c) ==
    [type |-> TagCode(c.Type), invokeID |-> c.InvokeID.Value,
     opCode |-> c.OperationCode.Value, param |-> c.Parameter.Value]

\* the held Components were marshalled from an Invoke followed by a
\* ReturnResultLast
InvokeThenResult ==
    /\ src.from = "NewComponents"
    /\ src.args = <<Invoke, ReturnResultLast>>

\* C13: ParseComponents of a Component Portion holding an Invoke followed by
\* a ReturnResultLast returns exactly two components, an Invoke and a
\* ReturnResultLast, each with the InvokeID, OperationCode and Parameter of
\* the component that was marshalled.
C13_SplitsInTwo ==
    (op = "ParseComponents" /\ InvokeThenResult) =>
        /\ ret = "nil"
        /\ Len(tree.val.Component) = 2
        /\ \A k \in 1..2 :
               ComponentView(tree.val.Component[k]) = ComponentView(src.val.Component[k])

\* ParseComponents returns the Invoke alone, and no error, when the
\* ReturnResultLast that follows it has an empty parameter
C13_Failure ==
    /\ op = "ParseComponents" /\ InvokeThenResult
    /\ src.val.Component[1].LinkedID.nil
    /\ src.val.Component[2].Parameter.Value = <<>>
    /\ ret = "nil"
    /\ Len(tree.val.Component) = 1

\* C14: when Parse, ParseTransaction, ParseDialogue or ParseComponents fails
\* on its input, it returns an error (it does not panic) and no result; in
\* particular, when the UnmarshalBinary that ParseComponents calls fails,
\* ParseComponents returns an error and no Components.
C14_FailureIsTerminal ==
    /\ (op \in {"Parse", "ParseTransaction", "ParseDialogue"} /\ ret # "nil") =>
           (ret # "panic" /\ tree = NoTree)
    /\ (op = "ParseComponents" /\ Components_UnmarshalBinary(wire.bytes).err # "nil") =>
           (ret \notin {"nil", "panic"} /\ tree = NoTree)

\* ParseComponents returns the first component and no error for a Component
\* Portion cut inside its second component
C14_Failure ==
    /\ op = "ParseComponents"
    /\ Len(wire.bytes) \in 16..(Len(ComponentsWire) - 1)
    /\ wire.bytes = SubSeq(ComponentsWire, 1, Len(wire.bytes))
    /\ ret = "nil"
    /\ Len(tree.val.Component) = 1

(***************************************************************************)
(* Encoding.                                                               *)
(***************************************************************************)
\* the number of bytes MarshalBinary allocates for the tree x marshalled last
MarshalLenOf(x) ==
    CASE x.kind = "IE" -> IE_MarshalLen(x.val)
      [] x.kind = "Transaction" -> Transaction_MarshalLen(x.val)
      [] x.kind = "Component" -> Component_MarshalLen(x.val)
      [] x.kind = "Components" -> Components_MarshalLen(x.val)
      [] x.kind = "DialoguePDU" -> DialoguePDU_MarshalLen(x.val)
      [] x.kind = "Dialogue" -> Dialogue_MarshalLen(x.val)
      [] x.kind = "TCAP" -> TCAP_MarshalLen(x.val)

MarshalBinaryOps ==
    {"IE.MarshalBinary", "Transaction.MarshalBinary", "Component.MarshalBinary",
     "Components.MarshalBinary", "DialoguePDU.MarshalBinary", "Dialogue.MarshalBinary",
     "TCAP.MarshalBinary"}

MarshalToOps == {"IE.MarshalTo", "Transaction.MarshalTo", "Dialogue.MarshalTo"}

\* C15: MarshalBinary of a tree built by a constructor, with payloads and
\* parameters of 0..255 bytes, returns MarshalLen() bytes and a nil error and
\* does not panic; MarshalTo does not panic either, and returns an error only
\* when the buffer it is given is shorter than MarshalLen().
C15_EncodingNeverCrashes ==
    /\ (op \in MarshalBinaryOps /\ ~src.parsed) =>
           (ret = "nil" /\ Len(buf.bytes) = MarshalLenOf(src))
    /\ (op \in MarshalToOps /\ ~src.parsed) =>
           /\ ret # "panic"
           /\ ret # "nil" => src.args[1] < MarshalLenOf(src)

\* MarshalBinary of the constructors' trees returns bytes and a nil error
C15_MarshalBinaryPart ==
    (op \in MarshalBinaryOps /\ ~src.parsed) =>
        (ret = "nil" /\ Len(buf.bytes) = MarshalLenOf(src))

\* IE.MarshalTo panics in a buffer of two bytes, too short for the value
C15_Failure ==
    /\ op = "IE.MarshalTo" /\ ~src.parsed
    /\ src.args[1] = 2 /\ Len(src.val.Value) = 2
    /\ ret = "panic"

(***************************************************************************)
(* Length finalization.                                                    *)
(***************************************************************************)
\* the bytes of t that follow the two bytes of the Transaction header: the
\* transaction ids and the cause that are set, the Transaction's payload, the
\* Dialogue Portion and the Component Portion
SizeAfterHeader(t) ==
    SumMarshalLen(Present(<<t.Transaction.OrigTransactionID,
                            t.Transaction.DestTransactionID,
                            t.Transaction.PAbortCause>>))
      + Len(t.Transaction.Payload)
      + (IF t.Dialogue.nil THEN 0 ELSE Dialogue_MarshalLen(t.Dialogue))
      + (IF t.Components.nil THEN 0 ELSE Components_MarshalLen(t.Components))

\* C16: after TCAP.SetLength, on a tree built by a constructor or returned by
\* Parse, Transaction.Length is the size of the ids and cause that are set
\* plus len(Payload) plus Dialogue.MarshalLen() plus Components.MarshalLen(),
\* which is the number of bytes MarshalBinary emits after the two bytes of
\* the Transaction header.
C16_LengthIsSize ==
    op = "TCAP.SetLength" =>
        /\ tree.val.Transaction.Length = SizeAfterHeader(tree.val)
        /\ TCAP_MarshalBinary(tree.val).err = "nil"
        /\ tree.val.Transaction.Length = Len(TCAP_MarshalBinary(tree.val).b) - 2

\* the same, the length being taken as the uint8 it is stored in
C16_LengthIsSizeMod256 ==
    op = "TCAP.SetLength" =>
        /\ tree.val.Transaction.Length = U8(SizeAfterHeader(tree.val))
        /\ TCAP_MarshalBinary(tree.val).err = "nil"
        /\ tree.val.Transaction.Length = U8(Len(TCAP_MarshalBinary(tree.val).b) - 2)

\* after SetLength on a NewBeginInvoke with a parameter of 255 bytes the
\* Transaction length is not the number of bytes that follow the header
C16_Failure ==
    /\ op = "TCAP.SetLength" /\ tree.from = "NewBeginInvoke"
    /\ SizeAfterHeader(tree.val) > 255
    /\ tree.val.Transaction.Length = SizeAfterHeader(tree.val) - 256

(***************************************************************************)
(* Tags.                                                                   *)
(***************************************************************************)
\* C17: for class in 0..3, form in 0..1 and code in 0..31, the tag
\* t = NewTag(class, form, code) has t.Class() = class, t.Form() = form and
\* t.Code() = code, and no other triple gives the same tag byte.
C17_TagRoundTrip ==
    op = "NewTag" =>
        /\ TagClass(tree.val) = tree.args[1]
        /\ TagForm(tree.val) = tree.args[2]
        /\ TagCode(tree.val) = tree.args[3]
        /\ \A cls \in 0..3, form \in 0..1, code \in 0..31 :
               NewTag(cls, form, code) = tree.val => <<cls, form, code>> = tree.args

\* NewTag(3, 1, 31) has been called and returned the tag 0xff
C17_Witness ==
    op = "NewTag" /\ tree.args = <<3, 1, 31>> /\ tree.val = 255

(***************************************************************************)
(* The Dialogue Portion.                                                   *)
(***************************************************************************)
\* the Dialogue d as codec_test.go compares it: without the bytes that the
\* parser keeps in SingleAsn1Type.Value
WithoutAsn1Value(d) == [d EXCEPT !.SingleAsn1Type.Value = <<>>]

\* the Dialogue re-encoded last was parsed from the bytes of one of the
\* Dialogue Portions of codec_test.go
ParsedDialogueMarshalled ==
    /\ op = "Dialogue.MarshalBinary" /\ src.parsed
    /\ wire.bytes \in DialogueWires

\* C18: for the bytes b of a Dialogue built by NewDialogue (AARQ, AARQ with
\* UserInformation, AARE), MarshalBinary of ParseDialogue(b), no field of it
\* being cleared, returns b, and ParseDialogue of that output yields the
\* Dialogue that the constructor built.
C18_DialogueReencodes ==
    ParsedDialogueMarshalled =>
        /\ ret = "nil"
        /\ buf.bytes = wire.bytes
        /\ ParseDialogue(buf.bytes).err = "nil"
        /\ \E d \in DialogueTrees :
               /\ Dialogue_MarshalBinary(d).b = wire.bytes
               /\ WithoutAsn1Value(ParseDialogue(buf.bytes).d) = d

\* the AARQ Dialogue of 36 bytes, parsed and marshalled, comes back as 53
\* bytes
C18_Failure ==
    /\ ParsedDialogueMarshalled
    /\ Len(wire.bytes) = 36 /\ Len(buf.bytes) = 53
    /\ ret = "nil"

(***************************************************************************)
(* The two decoders of a message: Parse and ParseBER.                      *)
(***************************************************************************)
\* the concatenated encodings of the elements ies
RECURSIVE EncodeAll(_)
EncodeAll(ies) ==
    IF Len(ies) = 0 THEN <<>>
    ELSE IE_MarshalBinary(Head(ies)).b \o EncodeAll(Tail(ies))

\* p is a run of BER elements: it is the encoding of what ParseAsBER reads
WellFormedBER(p) ==
    /\ ParseAsBER(p).err = "nil"
    /\ EncodeAll(ParseAsBER(p).ies) = p

\* what a caller reads of an element: its tag, length and value
ElementView(i) == [i EXCEPT !.IE = <<>>]

\* what a caller reads of a message without a Dialogue Portion
MessageView(t) ==
    [Type |-> t.Transaction.Type,
     Length |-> t.Transaction.Length,
     OrigTransactionID |-> ElementView(t.Transaction.OrigTransactionID),
     DestTransactionID |-> ElementView(t.Transaction.DestTransactionID),
     Components |->
         [k \in 1..Len(t.Components.Component) |->
             [InvokeID |-> ElementView(t.Components.Component[k].InvokeID),
              OperationCode |-> ElementView(t.Components.Component[k].OperationCode),
              Parameter |-> ElementView(t.Components.Component[k].Parameter)]]]

\* ParseBER has been called on the bytes marshalled from a Continue with one
\* Invoke built by NewContinueInvoke
ParseBEROfContinue ==
    /\ op = "ParseBER"
    /\ src.from = "NewContinueInvoke"
    /\ wire.bytes = TCAP_MarshalBinary(src.val).b

\* C19: for a well-formed Continue with one Invoke and no Dialogue Portion,
\* ParseBER(b)[0] and Parse(b) both succeed and describe the same message:
\* the same Transaction type and length, the same OrigTransactionID and
\* DestTransactionID and the same component list with equal InvokeID,
\* OperationCode and Parameter, and both equal the tree that NewContinueInvoke
\* built.
C19_ParseBERAgreesWithParse ==
    (ParseBEROfContinue /\ WellFormedBER(src.args[5])) =>
        /\ ret = "nil"
        /\ Len(tree.val) >= 1
        /\ Parse(wire.bytes, <<>>).err = "nil"
        /\ MessageView(tree.val[1]) = MessageView(Parse(wire.bytes, <<>>).t)
        /\ MessageView(tree.val[1]) = MessageView(src.val)

\* the same agreement for the messages whose Parameter is not empty
C19_NonEmptyParameterAgrees ==
    (ParseBEROfContinue /\ WellFormedBER(src.args[5]) /\ src.args[5] # <<>>) =>
        /\ ret = "nil"
        /\ Len(tree.val) >= 1
        /\ Parse(wire.bytes, <<>>).err = "nil"
        /\ MessageView(tree.val[1]) = MessageView(Parse(wire.bytes, <<>>).t)
        /\ MessageView(tree.val[1]) = MessageView(src.val)

\* a Continue whose Invoke has an empty Parameter: ParseBER returns the
\* Invoke that was built, Parse returns no error and no component
C19_Failure ==
    /\ ParseBEROfContinue
    /\ src.args[5] = <<>>
    /\ ret = "nil"
    /\ MessageView(tree.val[1]) = MessageView(src.val)
    /\ Len(tree.val[1].Components.Component) = 1
    /\ Parse(wire.bytes, <<>>).err = "nil"
    /\ Len(Parse(wire.bytes, <<>>).t.Components.Component) = 0

\* the Continue of codec_test.go read by both decoders
C19_TestCase ==
    /\ ParseBEROfContinue
    /\ src.args = <<286331153, 572662306, 1, 61, BERParameter>>
    /\ ret = "nil"
    /\ MessageView(tree.val[1]) = MessageView(Parse(wire.bytes, <<>>).t)

(***************************************************************************)
(* A tree shared between TCAP.SetLength and TCAP.MarshalBinary.            *)
(***************************************************************************)
\* the bytes of a run that finalizes the shared tree and then encodes it
FinalizedBytes == TCAP_MarshalBinary(TCAP_SetLength(src.val)).b

\* where the length octets of the Transaction Portion and of the Component
\* Portion stand in the bytes of t
LengthOctets(t) ==
    {2} \cup
    (IF t.Components.nil THEN {}
     ELSE { Transaction_MarshalLen(t.Transaction)
            + (IF t.Dialogue.nil THEN 0 ELSE Dialogue_MarshalLen(t.Dialogue)) + 2 })

\* C20: a tree shared between a thread in SetLength and a thread in
\* MarshalBinary is safe only when the caller serializes the two: whenever
\* MarshalBinary is called after SetLength has returned, it returns no error
\* and the bytes of the finalized tree, and the tree is the finalized one.
\* (That an interleaving of the two emits other length octets is the state
\* C20_TornLength, which the two threads reach.)
C20_SerializedIsFinalized ==
    (race.enc.pc = "done" /\ race.enc.serial) =>
        /\ ret = "nil"
        /\ tree.val = TCAP_SetLength(src.val)
        /\ buf.bytes = FinalizedBytes

\* both threads have returned, MarshalBinary having been called while
\* SetLength was running: the tree is finalized, yet the bytes emitted differ
\* from those of the serialized run, and in length octets only
C20_TornLength ==
    /\ race.enc.pc = "done"
    /\ race.fin.pc = "done"
    /\ ~race.enc.serial
    /\ ret = "nil"
    /\ tree.val = TCAP_SetLength(src.val)
    /\ Len(buf.bytes) = Len(FinalizedBytes)
    /\ buf.bytes # FinalizedBytes
    /\ \A k \in 1..Len(buf.bytes) :
           buf.bytes[k] # FinalizedBytes[k] => k \in LengthOctets(src.val)

\* the same on a tree that was finalized before it was shared: the encoder
\* has read the Components length between its reset to 0 and the end of the
\* loop, and emitted it smaller than it is
C20_TornOnFinalizedTree ==
    /\ C20_TornLength
    /\ src.val = TCAP_SetLength(src.val)
    /\ \E k \in LengthOctets(src.val) : k # 2 /\ buf.bytes[k] < FinalizedBytes[k]

\* the encoder has read the Transaction length after Transaction.SetLength
\* and before the portions were added to it
C20_TornTransactionLength ==
    /\ C20_TornLength
    /\ buf.bytes[2] < FinalizedBytes[2]

\* no interleaving holds the encoder to the finalized bytes
C20_AlwaysFinalized ==
    race.enc.pc = "done" => buf.bytes = FinalizedBytes

(***************************************************************************)
(* C21: a decoder whose input leads with a tag code outside its enumerated *)
(* set fails with the unsupported-type error.                              *)
(***************************************************************************)
TransactionTypes == {Unidirectional, Begin, End, Continue, Abort}

DialoguePDUTypes == {AARQ, AARE, ABRT}

ComponentCodes == {Invoke, ReturnResultLast, ReturnError, Reject, ReturnResultNotLast}

\* the call decoded at least four bytes whose leading tag code is not in codes
UnsupportedLead(name, codes) ==
    /\ op = name
    /\ wire.set
    /\ Len(wire.bytes) >= 4
    /\ TagCode(wire.bytes[1]) \notin codes

\* C21: ParseTransaction, ParseDialoguePDU and ParseComponent each return the
\* unsupported-type error (InvalidCodeError) when the leading tag code of the
\* input is outside the set of types the decoder enumerates
C21_UnsupportedTypeFails ==
    \/ UnsupportedLead("ParseTransaction", TransactionTypes)
    \/ UnsupportedLead("ParseDialoguePDU", DialoguePDUTypes)
    \/ UnsupportedLead("ParseComponent", ComponentCodes)
    => ret = "InvalidCodeError"

\* ParseTransaction of a message under type code 3 returned a Transaction and
\* no error
C21_TransactionAccepted ==
    /\ UnsupportedLead("ParseTransaction", TransactionTypes)
    /\ TagCode(wire.bytes[1]) = 3
    /\ ret = "nil"
    /\ tree.kind = "Transaction"
    /\ tree.val.Payload = Tail(Tail(wire.bytes))

\* ParseComponent of a component under type code 5 returned a Component with
\* its InvokeID and no error
C21_ComponentAccepted ==
    /\ UnsupportedLead("ParseComponent", ComponentCodes)
    /\ ret = "nil"
    /\ tree.kind = "Component"
    /\ ~tree.val.InvokeID.nil

\* the Dialogue PDU third of the statement: ParseDialoguePDU does fail so
C21_DialoguePDUFails ==
    UnsupportedLead("ParseDialoguePDU", DialoguePDUTypes) => ret = "InvalidCodeError"

\* ParseDialoguePDU has refused an AARQ retagged with code 3
C21_DialoguePDURefused ==
    /\ UnsupportedLead("ParseDialoguePDU", DialoguePDUTypes)
    /\ TagCode(wire.bytes[1]) = 3
    /\ ret = "InvalidCodeError"

(***************************************************************************)
(* C22: ParseComponents walks a Component Portion of one to three          *)
(* components by their physical extent.                                    *)
(***************************************************************************)
\* the components of b as their length octets delimit them, b being the
\* bytes behind the header of the Component Portion
RECURSIVE PhysicalComponents(_)
PhysicalComponents(b) ==
    IF Len(b) < 2 \/ Len(b) < 2 + b[2] THEN <<>>
    ELSE <<SubSeq(b, 1, 2 + b[2])>> \o PhysicalComponents(From(b, 2 + b[2]))

\* ParseComponents has decoded the encoding of the one to three components
\* NewComponents was called with, every length in the short form
ComponentRunDecoded ==
    /\ op = "ParseComponents"
    /\ wire.set
    /\ src.kind = "Components" /\ src.from = "NewComponents"
    /\ Len(src.val.Component) \in 1..3
    /\ Len(wire.bytes) <= 129
    /\ Len(PhysicalComponents(From(wire.bytes, 2))) = Len(src.val.Component)

\* every parameter of the run is non-empty, no Invoke has a LinkedID and
\* every Invoke has its operation code
PlainRun ==
    \A k \in 1..Len(src.val.Component) :
        /\ src.val.Component[k].LinkedID.nil
        /\ src.args[k] = Invoke => ~src.val.Component[k].OperationCode.nil
        /\ src.val.Component[k].Parameter.nil
               \/ src.val.Component[k].Parameter.Value # <<>>

\* the types of the run that are followed by another component
FollowedTypes == { src.args[k] : k \in 1..(Len(src.args) - 1) }

\* C22: for a Component Portion encoding one to three components of any of
\* the supported types in any order, a ReturnResultLast or
\* ReturnResultNotLast before the last position included, ParseComponents
\* returns as many components as were encoded, in wire order, each decoded
\* from the bytes where the previous one physically ended
C22_WalksPhysicalExtents ==
    (ComponentRunDecoded /\ PlainRun) =>
        /\ ret = "nil"
        /\ Len(tree.val.Component) = Len(src.val.Component)
        /\ \A k \in 1..Len(src.val.Component) :
               tree.val.Component[k] =
                   ParseComponent(PhysicalComponents(From(wire.bytes, 2))[k]).c

\* the walk is right when no ReturnResult is followed by another component
C22_RightWhenResultIsLast ==
    (/\ ComponentRunDecoded /\ PlainRun
     /\ FollowedTypes \cap {ReturnResultLast, ReturnResultNotLast} = {}) =>
        /\ ret = "nil"
        /\ Len(tree.val.Component) = Len(src.val.Component)
        /\ \A k \in 1..Len(src.val.Component) :
               tree.val.Component[k] =
                   ParseComponent(PhysicalComponents(From(wire.bytes, 2))[k]).c

\* three components of three types decoded, each from its own bytes
C22_ThreeDecoded ==
    /\ ComponentRunDecoded /\ PlainRun
    /\ src.args = <<ReturnError, Reject, Invoke>>
    /\ ret = "nil"
    /\ Len(tree.val.Component) = 3
    /\ tree.val.Component[3] =
           ParseComponent(PhysicalComponents(From(wire.bytes, 2))[3]).c

\* of an Invoke, a ReturnResultLast and an Invoke, ParseComponents returns
\* the first two and no error
C22_Failure ==
    /\ ComponentRunDecoded /\ PlainRun
    /\ src.args = <<Invoke, ReturnResultLast, Invoke>>
    /\ ret = "nil"
    /\ Len(tree.val.Component) = 2

\* a parsed ReturnResult counts its operation code and parameter twice: in
\* the value of the wrapper and as fields
C22_ResultLenDoubled ==
    /\ ComponentRunDecoded /\ PlainRun
    /\ src.args = <<ReturnResultNotLast, ReturnResultLast>>
    /\ ret = "nil"
    /\ Len(tree.val.Component) = 1
    /\ Component_MarshalLen(tree.val.Component[1])
           = Len(PhysicalComponents(From(wire.bytes, 2))[1]) + 9

(***************************************************************************)
(* C23: the dispatch of Parse on the first payload byte, and the payloads  *)
(* it leaves behind.                                                       *)
(***************************************************************************)
\* the Transaction Portion of the bytes Parse was called with
ParsedLead == ParseTransaction(buf.bytes, buf.spare)

\* Parse was called with a message whose Transaction Portion decodes and
\* whose payload starts with the octet lead
PayloadLeads(lead) ==
    /\ op = "Parse"
    /\ wire.set
    /\ ParsedLead.err = "nil"
    /\ Len(ParsedLead.t.Payload) > 0
    /\ ParsedLead.t.Payload[1] = lead

\* C23: Parse of a message whose Transaction payload starts with 0x6b yields
\* a Dialogue, and Components decoded from the bytes behind the Dialogue
\* when any remain; one whose payload starts with 0x6c yields no Dialogue and
\* Components; and after a successful Parse the bytes of the Dialogue and of
\* the Components are no longer in Transaction.Payload, nor those of the
\* Components in Dialogue.Payload, so that MarshalLen counts every region of
\* the message once
C23_DispatchAndReslice ==
    /\ (PayloadLeads(107) /\ ParseDialogue(ParsedLead.t.Payload).err = "nil") =>
           /\ ret = "nil"
           /\ ~tree.val.Dialogue.nil
           /\ Len(ParseDialogue(ParsedLead.t.Payload).d.Payload) > 0 =>
                  ~tree.val.Components.nil
    /\ (PayloadLeads(108) /\ ret = "nil") =>
           /\ tree.val.Dialogue.nil
           /\ ~tree.val.Components.nil
    /\ ((PayloadLeads(107) \/ PayloadLeads(108)) /\ ret = "nil") =>
           TCAP_MarshalLen(tree.val) = Len(wire.bytes)

\* the 0x6c branch alone does what is said of it
C23_ComponentsBranch ==
    (PayloadLeads(108) /\ ret = "nil") =>
        /\ tree.val.Dialogue.nil
        /\ ~tree.val.Components.nil
        /\ TCAP_MarshalLen(tree.val) = Len(wire.bytes)

\* Parse has returned Components and an emptied Transaction payload for a
\* Begin carrying a Component Portion
C23_ComponentsResliced ==
    /\ PayloadLeads(108)
    /\ ret = "nil"
    /\ Len(tree.val.Components.Component) = 1
    /\ tree.val.Transaction.Payload = <<>>

\* Parse panics on the message of NewBeginInvokeWithDialogue: a Dialogue
\* followed by Components
C23_Failure ==
    /\ PayloadLeads(107)
    /\ src.from = "NewBeginInvokeWithDialogue"
    /\ ParseDialogue(ParsedLead.t.Payload).err = "nil"
    /\ Len(ParseDialogue(ParsedLead.t.Payload).d.Payload) > 0
    /\ ret = "panic"

\* Parse of a Begin carrying a Dialogue alone succeeds and leaves the bytes of
\* the Dialogue in Transaction.Payload, so MarshalLen counts them again
C23_DialogueStays ==
    /\ PayloadLeads(107)
    /\ ret = "nil"
    /\ ~tree.val.Dialogue.nil
    /\ tree.val.Components.nil
    /\ tree.val.Transaction.Payload = ParsedLead.t.Payload
    /\ TCAP_MarshalLen(tree.val) > Len(wire.bytes) + Len(ParsedLead.t.Payload)

(***************************************************************************)
(* C24: an Invoke with a LinkedID, marshalled and parsed.                  *)
(***************************************************************************)
\* ParseComponent was called with the bytes marshalled from an Invoke that
\* NewInvoke built with a positive linked id and a parameter of 1 to 127
\* bytes
LinkedInvokeDecoded ==
    /\ op = "ParseComponent"
    /\ wire.set
    /\ src.kind = "Component" /\ src.from = "NewInvoke"
    /\ src.args[2] > 0
    /\ src.args[5] \in 1..127
    /\ wire.bytes = Component_MarshalBinary(src.val).b

\* the fields of an Invoke as a caller reads them
InvokeView(c) ==
    [InvokeID |-> ElementView(c.InvokeID), LinkedID |-> ElementView(c.LinkedID),
     OperationCode |-> ElementView(c.OperationCode),
     Parameter |-> ElementView(c.Parameter)]

\* C24: an Invoke built by NewInvoke with a positive linked id is encoded as
\* its InvokeID, LinkedID, OperationCode and Parameter in that order, and
\* ParseComponent of the encoding returns a Component with the same InvokeID,
\* LinkedID, OperationCode and Parameter
C24_LinkedInvokeRoundTrip ==
    LinkedInvokeDecoded =>
        /\ wire.bytes = <<src.val.Type, src.val.Length>>
                            \o IE_MarshalBinary(src.val.InvokeID).b
                            \o IE_MarshalBinary(src.val.LinkedID).b
                            \o IE_MarshalBinary(src.val.OperationCode).b
                            \o IE_MarshalBinary(src.val.Parameter).b
        /\ ret = "nil"
        /\ InvokeView(tree.val) = InvokeView(src.val)

\* the encoding half: the four fields are written in that order
C24_EncodingOrder ==
    LinkedInvokeDecoded =>
        /\ ~src.val.LinkedID.nil
        /\ wire.bytes = <<src.val.Type, src.val.Length>>
                            \o IE_MarshalBinary(src.val.InvokeID).b
                            \o IE_MarshalBinary(src.val.LinkedID).b
                            \o IE_MarshalBinary(src.val.OperationCode).b
                            \o IE_MarshalBinary(src.val.Parameter).b

\* ParseComponent returns no LinkedID: the linked id is in OperationCode and
\* the operation code in Parameter
C24_Failure ==
    /\ LinkedInvokeDecoded
    /\ ret = "nil"
    /\ tree.val.LinkedID.nil
    /\ ElementView(tree.val.OperationCode) = ElementView(src.val.LinkedID)
    /\ ElementView(tree.val.Parameter) = ElementView(src.val.OperationCode)

\* without a linked id the Invoke comes back as built
C24_PlainInvokeRoundTrip ==
    (/\ op = "ParseComponent" /\ wire.set
     /\ src.kind = "Component" /\ src.from = "NewInvoke"
     /\ src.args[2] <= 0 /\ src.args[5] \in 1..127
     /\ wire.bytes = Component_MarshalBinary(src.val).b) =>
        ret = "nil" /\ InvokeView(tree.val) = InvokeView(src.val)

(***************************************************************************)
(* C25: the Component NewReject returns, and its encoding.                 *)
(***************************************************************************)
\* a Component of NewReject is held: just built, or just marshalled
RejectBuilt == op = "NewReject" /\ tree.kind = "Component"

RejectMarshalled ==
    /\ op = "Component.MarshalBinary"
    /\ src.kind = "Component" /\ src.from = "NewReject"
    /\ ret = "nil"

\* C25: NewReject(invID, problemType, problemCode, param) returns a Component
\* of type Reject (ComponentTypeString() is "reject") whose ProblemCode has
\* the tag code problemType and the value [problemCode], and the Component is
\* encoded as the Reject tag, the length, the InvokeID and the ProblemCode
C25_RejectIsReject ==
    /\ RejectBuilt =>
           /\ ComponentTypeString(tree.val) = "reject"
           /\ TagCode(tree.val.ProblemCode.Tag) = tree.args[2]
           /\ tree.val.ProblemCode.Value = <<tree.args[3]>>
    /\ RejectMarshalled =>
           buf.bytes = <<NewContextSpecificConstructorTag(Reject), 6>>
                           \o IE_MarshalBinary(src.val.InvokeID).b
                           \o IE_MarshalBinary(src.val.ProblemCode).b

\* the ProblemCode is as stated
C25_ProblemCodeFields ==
    RejectBuilt =>
        /\ TagCode(tree.val.ProblemCode.Tag) = tree.args[2]
        /\ tree.val.ProblemCode.Value = <<tree.args[3]>>
        /\ tree.val.ProblemCode.Length = 1

\* NewReject has returned a Component of type Invoke
C25_Failure ==
    /\ RejectBuilt
    /\ tree.args[2] = 1
    /\ TagCode(tree.val.Type) = Invoke
    /\ ComponentTypeString(tree.val) = "invoke"

\* and its encoding is an Invoke of the InvokeID alone
C25_EncodedAsInvoke ==
    /\ RejectMarshalled
    /\ buf.bytes = <<161, 3, 2, 1, 0>>

(***************************************************************************)
(* C26: the header writeLength writes for an 8-bit length.                 *)
(***************************************************************************)
\* writeLength(b, n) has returned for a b of six zero bytes
LengthWritten == op = "writeLength" /\ src.from = "writeLength" /\ ret = "nil"

\* C26: writeLength(length) writes the single short-form octet length and
\* returns the offset 2 when length <= 127; for 128..255 it writes 0x81
\* followed by one octet equal to length - 1 and returns the offset 3; it
\* writes no second length-value octet and leaves the rest of b alone
C26_WriteLengthHeader ==
    op = "writeLength" =>
        /\ ret = "nil"
        /\ src.val.length <= 127 =>
               /\ src.val.offset = 2
               /\ buf.bytes = <<0, src.val.length, 0, 0, 0, 0>>
        /\ src.val.length >= 128 =>
               /\ src.val.offset = 3
               /\ buf.bytes = <<0, 129, src.val.length - 1, 0, 0, 0>>

\* the long form written for 255: 81 fe
C26_Witness ==
    /\ LengthWritten
    /\ src.val.length = 255
    /\ src.val.offset = 3
    /\ buf.bytes = <<0, 129, 254, 0, 0, 0>>

\* the short form written for 127: 7f
C26_WitnessShort ==
    /\ LengthWritten
    /\ src.val.length = 127
    /\ src.val.offset = 2
    /\ buf.bytes = <<0, 127, 0, 0, 0, 0>>

(***************************************************************************)
(* C27: what readLength returns for the three forms of the length octet.   *)
(***************************************************************************)
\* the low 16 bits of the big-endian number that acc followed by the octets
\* spells; the octets are folded in order, by halves
RECURSIVE BigEndianFrom(_, _)
BigEndianFrom(acc, octets) ==
    IF Len(octets) = 0 THEN acc
    ELSE IF Len(octets) = 1 THEN (256 * acc + octets[1]) % 65536
    ELSE BigEndianFrom(BigEndianFrom(acc, SubSeq(octets, 1, Len(octets) \div 2)),
                       SubSeq(octets, Len(octets) \div 2 + 1, Len(octets)))

BigEndian(octets) == BigEndianFrom(0, octets)

\* readLength has returned for a b that holds its length octet
LengthRead == op = "readLength" /\ wire.set /\ ret = "nil" /\ Len(wire.bytes) >= 2

\* the number of length octets the long form announces
LengthCount == wire.bytes[2] - 128

\* C27: readLength returns (b[1], 2) when the high bit of b[1] is 0 and
\* (0, 2) when b[1] is 0x80; for b[1] = 0x80 | count with count >= 1 it
\* returns the low 8 bits of the big-endian fold of the next count octets and
\* the header size 3 whatever count is, so that for count >= 2 the header
\* size it reports is smaller than 2 + count
C27_ReadLengthForms ==
    LengthRead =>
        /\ wire.bytes[2] < 128 => tree.val = [length |-> wire.bytes[2], offset |-> 2]
        /\ wire.bytes[2] = 128 => tree.val = [length |-> 0, offset |-> 2]
        /\ (LengthCount >= 1 /\ Len(wire.bytes) >= 2 + LengthCount) =>
               /\ tree.val.length
                      = BigEndian(SubSeq(wire.bytes, 3, 2 + LengthCount)) % 256
               /\ tree.val.offset = 3
               /\ LengthCount >= 2 => tree.val.offset < 2 + LengthCount

\* two length octets 01 02: the length read is 2 and the header size 3, not 4
C27_Witness ==
    /\ LengthRead
    /\ wire.bytes = <<4, 130, 1, 2, 1, 2>>
    /\ tree.val = [length |-> 2, offset |-> 3]

\* one length octet: 81 with the octet behind it
C27_WitnessOne ==
    /\ LengthRead
    /\ wire.bytes[2] = 129 /\ Len(wire.bytes) >= 3
    /\ wire.bytes[3] = 48
    /\ tree.val = [length |-> 48, offset |-> 3]

\* the indefinite form 80
C27_WitnessIndefinite ==
    /\ LengthRead
    /\ wire.bytes[2] = 128
    /\ tree.val = [length |-> 0, offset |-> 2]

(***************************************************************************)
(* C28: the three decode loops end, and stay within their buffer.          *)
(***************************************************************************)
\* one of the three loops was run on the bytes received
LoopRan == op \in {"ParseComponents", "ParseAsBER", "ParseMultiIEs"} /\ wire.set

\* C28: ParseComponents, ParseAsBER and ParseMultiIEs return, a result or an
\* error, on every input, and never slice or index beyond the end of the
\* buffer that remains: none of them ends in a run-time panic
C28_LoopsStayInside == LoopRan => ret \in {"nil", "ErrUnexpectedEOF"}

\* the two loops of ie.go do return on every input given to them
C28_IELoopsStayInside ==
    (op \in {"ParseAsBER", "ParseMultiIEs"} /\ wire.set) =>
        ret \in {"nil", "ErrUnexpectedEOF"}

\* ParseComponents panics on the 23 bytes of a ReturnResultLast followed by
\* the component of NewReject: the slice b[offset+comp.MarshalLen()-2:] starts
\* at 25
C28_Failure ==
    /\ op = "ParseComponents" /\ wire.set
    /\ src.kind = "Components" /\ src.from = "NewComponents"
    /\ src.args = <<ReturnResultLast, Invoke>>
    /\ Len(wire.bytes) = 23
    /\ Component_MarshalLen(ParseComponent(From(wire.bytes, 2)).c) = 25
    /\ ret = "panic"

\* ParseAsBER and ParseMultiIEs have returned several elements
C28_LoopsIterate ==
    /\ op \in {"ParseAsBER", "ParseMultiIEs"} /\ wire.set
    /\ ret = "nil"
    /\ Len(tree.val) >= 2

(***************************************************************************)
(* C29: SetLength done twice, and MarshalBinary done on a tree.            *)
(***************************************************************************)
\* TCAP.SetLength has returned on the tree held
LengthsSet == op = "TCAP.SetLength" /\ tree.kind = "TCAP"

\* TCAP.MarshalBinary has returned bytes for the tree held
TreeMarshalled == op = "TCAP.MarshalBinary" /\ tree.kind = "TCAP" /\ ret = "nil"

\* C29: on a TCAP tree, constructed or parsed, on which SetLength has been
\* called, a second SetLength leaves every Length field (of the Transaction,
\* the Dialogue and its External, the Components, each Component and each IE)
\* as the first call left it; and MarshalBinary changes no field of the tree,
\* so that a second MarshalBinary returns the bytes of the first
C29_SetLengthIdempotent ==
    /\ LengthsSet => TCAP_SetLength(tree.val) = tree.val
    /\ op = "TCAP.MarshalBinary" => tree = src
    /\ TreeMarshalled => TCAP_MarshalBinary(tree.val) = [err |-> "nil", b |-> buf.bytes]

\* SetLength has changed the Dialogue length of a parsed tree, and would
\* change nothing if called again
C29_Witness ==
    /\ LengthsSet
    /\ tree.parsed
    /\ ~tree.val.Dialogue.nil
    /\ tree.val.Dialogue.Length # wire.bytes[10]
    /\ TCAP_SetLength(tree.val) = tree.val

\* SetLength on a constructed tree with a Dialogue and Components
C29_WitnessBuilt ==
    /\ LengthsSet
    /\ ~tree.parsed
    /\ ~tree.val.Dialogue.nil
    /\ ~tree.val.Components.nil
    /\ tree.val.Components.Length > 0

\* MarshalBinary has returned the bytes of a tree it left as it was
C29_WitnessMarshalled ==
    /\ TreeMarshalled
    /\ tree = src
    /\ ~tree.val.Components.nil
    /\ Len(buf.bytes) > 0

(***************************************************************************)
(* C30: Context() and ContextVersion() on a decoded AARQ or AARE.          *)
(***************************************************************************)
\* ParseDialoguePDU has returned an AARQ or an AARE whose
\* ApplicationContextName has a value of 0 to 9 bytes
ContextNameDecoded ==
    /\ op = "ParseDialoguePDU" /\ wire.set /\ ret = "nil"
    /\ TagCode(tree.val.Type) \in {AARQ, AARE}
    /\ ~tree.val.ApplicationContextName.nil
    /\ Len(tree.val.ApplicationContextName.Value) \in 0..9

\* C30: on every AARQ or AARE that ParseDialoguePDU returns with an
\* ApplicationContextName value of 0 to 9 bytes, Context() and
\* ContextVersion() return a string, the empty one when the value is too
\* short to hold the byte they read, and do not index beyond the end of the
\* value
C30_AccessorsTotal ==
    ContextNameDecoded =>
        /\ ~DialoguePDU_ContextVersion(tree.val).panic
        /\ Len(tree.val.ApplicationContextName.Value) < 8 =>
               DialoguePDU_Context(tree.val) = ""
        /\ Len(tree.val.ApplicationContextName.Value) < 9 =>
               DialoguePDU_ContextVersion(tree.val).v = ""

\* Context() alone is total: empty below eight bytes, the name of the eighth
\* byte from eight bytes on
C30_ContextTotal ==
    ContextNameDecoded =>
        /\ Len(tree.val.ApplicationContextName.Value) < 8 =>
               DialoguePDU_Context(tree.val) = ""
        /\ (/\ Len(tree.val.ApplicationContextName.Value) >= 8
            /\ tree.val.ApplicationContextName.Value[8] = AnyTimeInfoEnquiryContext) =>
               DialoguePDU_Context(tree.val) = "anyTimeInfoEnquiryContext"

\* ContextVersion() panics on an AARQ whose context name has eight bytes
C30_Failure ==
    /\ ContextNameDecoded
    /\ TagCode(tree.val.Type) = AARQ
    /\ Len(tree.val.ApplicationContextName.Value) = 8
    /\ DialoguePDU_Context(tree.val) = "anyTimeInfoEnquiryContext"
    /\ DialoguePDU_ContextVersion(tree.val).panic

\* both accessors return on the nine bytes of a whole context name
C30_WholeName ==
    /\ ContextNameDecoded
    /\ Len(tree.val.ApplicationContextName.Value) = 9
    /\ DialoguePDU_ContextVersion(tree.val) = [panic |-> FALSE, v |-> "3"]

\* and on an empty value
C30_EmptyName ==
    /\ ContextNameDecoded
    /\ Len(tree.val.ApplicationContextName.Value) = 0
    /\ DialoguePDU_ContextVersion(tree.val) = [panic |-> FALSE, v |-> ""]

====
